---- MODULE Spec2Model ----
(***************************************************************************)
(* Model of the desired-revision resolver (internal/argocd/revision.go,    *)
(* GetDesiredRevisions) and of chart-reference normalization.              *)
(*                                                                         *)
(* Repo URLs and chart names are sequences of one-character strings, so    *)
(* that strings.Contains, strings.TrimSuffix and fmt.Sprintf are computed  *)
(* character by character.  Versions, commit IDs and origin names are      *)
(* opaque and are plain strings.                                           *)
(***************************************************************************)
EXTENDS Integers, Sequences, FiniteSets, TLC

VARIABLES
    app,          \* *argocd.Application argument
    update,       \* *kargoapi.ArgoCDAppUpdate argument
    frght,        \* []kargoapi.FreightReference argument
    lookupFault,  \* index of the source whose finder call fails (0: none)
    pc,           \* position of the call: start, loop, done, panic, idle
    sources,      \* local variable sources (line 31)
    idx,          \* position of the range loop (line 35), 1-based
    revisions,    \* local variable revisions (line 26), the returned list
    revisionsNil, \* whether revisions is still a nil slice
    err,          \* the returned error
    log,          \* history: one record per Helm/Git source handled
    nRepo,        \* chart-reference normalization: repo URL
    nChart,       \* chart-reference normalization: chart name
    nHist,        \* chart-reference normalization: the pairs seen so far
    bkUpdates,    \* stage.Spec.PromotionMechanisms.GitRepoUpdates
    bkInput,      \* the StageState value handed to Promote
    bkCaller,     \* the caller's StageState, whose Commits array it owns
    bkState,      \* newState of Promote
    bkShared,     \* whether bkState.Commits is the caller's array
    bkTodo,       \* local variable updates of Promote (line 67)
    bkIdx,        \* position of the loop of line 88, 1-based
    bkPc,         \* position of Promote: start, loop, done, idle
    bkErr,        \* the error Promote returns ("" is nil)
    bkLog,        \* history: one record per doSingleUpdate call
    bkFirst,      \* history: bkLog of the first promotion, when repeated
    bkRepeated,   \* whether the promotion is the repeated one
    schKind,      \* the directive whose schema validates the configuration
    schConfig,    \* the raw configuration
    schVerdict,   \* pending, valid or ConfigInvalid
    cvBefore,     \* chart versions before the dependency update
    cvAfter,      \* chart versions after it
    cvChanges,    \* the change-set of compareChartVersions
    cvApplied,    \* cvBefore with the change-set applied
    cvPc,         \* start, compared, applied, committed, idle
    cvMessage,    \* the commit message generated for the change-set
    puCharts,     \* processChartUpdates: cfg.Charts
    puDeps,       \* processChartUpdates: chartDependencies
    puFreight,    \* processChartUpdates: stepCtx.Freight
    puIdx,        \* position of the loop over cfg.Charts, 1-based
    puChanges,    \* the changes map
    puErr,        \* the error returned ("" is nil)
    puLog,        \* history: one record per configured chart handled
    puPc,         \* loop, done, idle
    ldDeps,       \* loadDependencyCredentials: the repositories of the dependencies
    ldIdx,        \* position of the loop over the dependencies, 1-based
    ldRepositories, \* repositoryFile.Repositories
    ldLogins,     \* the registry logins made
    ldErr,        \* the error returned
    ldLog,        \* history: one record per credentials lookup
    ldPc,         \* loop, done, idle
    plSteps,      \* pipeline run: the aliases of the declared steps
    plIdx,        \* position of the run, 1-based
    plResults,    \* the per-step results
    plRan,        \* history: the steps whose Run was invoked, in order
    plStatus,     \* Status of the pipeline result
    plErr,        \* the error returned ("" is nil)
    plPc,         \* run, done, idle
    htConfigValid, \* helm-template: whether stepCtx.Config passes the schema
    htKubeVersion, \* cfg.KubeVersion
    htDeclared,   \* chartRequested.Metadata.Dependencies
    htVendored,   \* the dependencies found in the chart's charts/ directory
    htFile0,      \* the output file before Run
    htFile,       \* the output file
    htInstall,    \* the install action (<< >> before it is made)
    htTrace,      \* history: the phases performed, in order
    htResult,     \* the Result and error returned
    htPc,         \* the next phase, done or idle
    whTracks,     \* webhook: the Tracks of the namespace
    whRepo,       \* payload.Repository.RepoName
    whTag,        \* payload.PushData.Tag
    whListFails,  \* whether listing the Tracks fails
    whSubscribed, \* the Tracks getTracksByImageRepo returned
    whIdx,        \* position in whSubscribed
    whTickets,    \* the Tickets created, in order
    whErr,        \* the error returned
    whPc          \* start, loop, done, idle

resolverVars == <<app, update, frght, lookupFault, pc, sources, idx,
                  revisions, revisionsNil, err, log>>

normVars == <<nRepo, nChart, nHist>>

bkVars == <<bkUpdates, bkInput, bkCaller, bkState, bkShared, bkTodo, bkIdx,
           bkPc, bkErr, bkLog, bkFirst, bkRepeated>>

schVars == <<schKind, schConfig, schVerdict>>

cvVars == <<cvBefore, cvAfter, cvChanges, cvApplied, cvPc, cvMessage>>

puVars == <<puCharts, puDeps, puFreight, puIdx, puChanges, puErr, puLog, puPc>>

ldVars == <<ldDeps, ldIdx, ldRepositories, ldLogins, ldErr, ldLog, ldPc>>

plVars == <<plSteps, plIdx, plResults, plRan, plStatus, plErr, plPc>>

htVars == <<htConfigValid, htKubeVersion, htDeclared, htVendored, htFile0,
           htFile, htInstall, htTrace, htResult, htPc>>

whVars == <<whTracks, whRepo, whTag, whListFails, whSubscribed, whIdx,
           whTickets, whErr, whPc>>

nonResolverVars == <<normVars, bkVars, schVars, cvVars, puVars, ldVars, plVars, htVars, whVars>>

nonNormVars == <<resolverVars, bkVars, schVars, cvVars, puVars, ldVars, plVars, htVars, whVars>>

nonBkVars == <<resolverVars, normVars, schVars, cvVars, puVars, ldVars, plVars, htVars, whVars>>

nonSchVars == <<resolverVars, normVars, bkVars, cvVars, puVars, ldVars, plVars, htVars, whVars>>

nonCvVars == <<resolverVars, normVars, bkVars, schVars, puVars, ldVars, plVars, htVars, whVars>>

nonPuVars == <<resolverVars, normVars, bkVars, schVars, cvVars, ldVars, plVars, htVars, whVars>>

nonLdVars == <<resolverVars, normVars, bkVars, schVars, cvVars, puVars, plVars, htVars, whVars>>

nonPlVars == <<resolverVars, normVars, bkVars, schVars, cvVars, puVars, ldVars, htVars, whVars>>

nonHtVars == <<resolverVars, normVars, bkVars, schVars, cvVars, puVars, ldVars, plVars, whVars>>

nonWhVars == <<resolverVars, normVars, bkVars, schVars, cvVars, puVars, ldVars, plVars, htVars>>

vars == <<resolverVars, normVars, bkVars, schVars, cvVars, puVars, ldVars, plVars, htVars, whVars>>

----------------------------------------------------------------------------
(* Bounds of the model *)

MaxSources == 2

MaxSourceUpdates == 2

MaxGitRepoUpdates == 2

MaxCommits == 2

----------------------------------------------------------------------------
(* Strings *)

EMPTY == << >>

SCHEME_SEP == <<":", "/", "/">>

OCI_PREFIX == <<"o", "c", "i", ":", "/", "/">>

SLASH == <<"/">>

URL_X == <<"h", "t", "t", "p", "s", ":", "/", "/", "x">>

URL_Y == <<"h", "t", "t", "p", "s", ":", "/", "/", "y">>

REG == <<"r">>

REG_SLASH == <<"r", "/">>

LOCAL_PATH == <<".", "/", "r">>

OCI_R == <<"o", "c", "i", ":", "/", "/", "r">>

OCI_R_SLASH == <<"o", "c", "i", ":", "/", "/", "r", "/">>

OCI_R_C == <<"o", "c", "i", ":", "/", "/", "r", "/", "c">>

CHART_C == <<"c">>

CHART_D == <<"d">>

\* strings.Contains(s, sub)
Contains(s, sub) ==
    \E i \in 1..(Len(s) + 1) :
        /\ i + Len(sub) - 1 <= Len(s)
        /\ SubSeq(s, i, i + Len(sub) - 1) = sub

\* strings.HasPrefix(s, prefix)
HasPrefix(s, prefix) ==
    /\ Len(prefix) <= Len(s)
    /\ SubSeq(s, 1, Len(prefix)) = prefix

\* strings.HasSuffix(s, suffix)
HasSuffix(s, suffix) ==
    /\ Len(suffix) <= Len(s)
    /\ SubSeq(s, Len(s) - Len(suffix) + 1, Len(s)) = suffix

\* strings.TrimSuffix(s, suffix): one occurrence of the suffix is removed
TrimSuffix(s, suffix) ==
    IF HasSuffix(s, suffix) THEN SubSeq(s, 1, Len(s) - Len(suffix)) ELSE s

----------------------------------------------------------------------------
(* Data *)

NilOrigin == [Kind |-> "", Name |-> ""]

W1 == [Kind |-> "Warehouse", Name |-> "w1"]

W2 == [Kind |-> "Warehouse", Name |-> "w2"]

ApplicationSource(repoURL, chart) == [RepoURL |-> repoURL, Chart |-> chart]

ArgoCDSourceUpdate(repoURL, chart, origin) ==
    [RepoURL |-> repoURL, Chart |-> chart, Origin |-> origin]

GitCommit(repoURL, id, hcc) ==
    [RepoURL |-> repoURL, ID |-> id, HealthCheckCommit |-> hcc]

Chart(repoURL, name, version) ==
    [RepoURL |-> repoURL, Name |-> name, Version |-> version]

HELM_X_C == ApplicationSource(URL_X, CHART_C)

GIT_Y == ApplicationSource(URL_Y, EMPTY)

HELM_REG_C == ApplicationSource(REG, CHART_C)

HELM_REGSLASH_C == ApplicationSource(REG_SLASH, CHART_C)

UNCLASSIFIABLE == ApplicationSource(EMPTY, EMPTY)

SourceChoices == {HELM_X_C, GIT_Y, HELM_REGSLASH_C, UNCLASSIFIABLE}

SingleSourceChoices == {HELM_X_C, GIT_Y, HELM_REG_C, HELM_REGSLASH_C}

SU_GIT_Y_W2 == ArgoCDSourceUpdate(URL_Y, EMPTY, W2)

SU_GIT_Y_W1 == ArgoCDSourceUpdate(URL_Y, EMPTY, W1)

SU_Y_C_W1 == ArgoCDSourceUpdate(URL_Y, CHART_C, W1)

SU_X_C_W2 == ArgoCDSourceUpdate(URL_X, CHART_C, W2)

SU_X_D_W2 == ArgoCDSourceUpdate(URL_X, CHART_D, W2)

SourceUpdateChoices ==
    {SU_GIT_Y_W2, SU_GIT_Y_W1, SU_Y_C_W1, SU_X_C_W2, SU_X_D_W2}

FREIGHT_W1 ==
    [Origin  |-> W1,
     Commits |-> <<GitCommit(URL_Y, "fed987", "def456")>>,
     Charts  |-> <<Chart(URL_X, CHART_C, "1.2.3"), Chart(OCI_R_C, EMPTY, "2.0.0")>>]

FREIGHT_W2 ==
    [Origin  |-> W2,
     Commits |-> <<GitCommit(URL_Y, "abc123", "")>>,
     Charts  |-> <<Chart(URL_X, CHART_C, "3.0.0")>>]

FreightPools == {<<FREIGHT_W1, FREIGHT_W2>>, <<FREIGHT_W2>>}

SeqsUpTo(S, n) == UNION {[1..k -> S] : k \in 0..n}

\* the sequences of SeqsUpTo(S, n) that name no element twice
DistinctSeqsUpTo(S, n) ==
    {s \in SeqsUpTo(S, n) : \A i, j \in 1..Len(s) : i # j => s[i] # s[j]}

NilApp == [IsNil |-> TRUE, Source |-> << >>, SourcesNil |-> TRUE, Sources |-> << >>]

\* app.Spec.Source is a pointer: << >> is nil, <<s>> points to s.
\* app.Spec.Sources is a slice: SourcesNil tells nil from an empty slice.
Applications ==
    {NilApp} \cup
    {[IsNil |-> FALSE, Source |-> src, SourcesNil |-> FALSE, Sources |-> ss] :
        src \in {<< >>} \cup {<<s>> : s \in SingleSourceChoices},
        ss \in SeqsUpTo(SourceChoices, MaxSources)} \cup
    {[IsNil |-> FALSE, Source |-> src, SourcesNil |-> TRUE, Sources |-> << >>] :
        src \in {<< >>} \cup {<<s>> : s \in SingleSourceChoices}}

AppUpdates ==
    [Origin : {NilOrigin, W1},
     SourceUpdates : DistinctSeqsUpTo(SourceUpdateChoices, MaxSourceUpdates)]

NoError == [msg |-> "", repo |-> EMPTY]

\* the number of sources the loop of line 35 ranges over
NumSources(a) ==
    IF a.IsNil THEN 0
    ELSE IF a.SourcesNil THEN Len(a.Source)
    ELSE Len(a.Sources)

----------------------------------------------------------------------------
(* Collaborators of package freight *)

\* freight.GetDesiredOrigin: the origin policy of the mechanism handed in
GetDesiredOrigin(mechanism) == mechanism.Origin

\* Freight entries selected by an origin policy: the exact origin, or any
\* entry when the policy is unconstrained
SelectedFreight(desiredOrigin, f) ==
    SelectSeq(f, LAMBDA fr : desiredOrigin = NilOrigin \/ fr.Origin = desiredOrigin)

AllCharts(f) ==
    LET RECURSIVE cat(_)
        cat(i) == IF i > Len(f) THEN << >> ELSE f[i].Charts \o cat(i + 1)
    IN cat(1)

AllCommits(f) ==
    LET RECURSIVE cat(_)
        cat(i) == IF i > Len(f) THEN << >> ELSE f[i].Commits \o cat(i + 1)
    IN cat(1)

\* freight.FindChart: << >> is nil (no match), <<c>> the chart found
FindChart(desiredOrigin, f, repoURL, chartName) ==
    LET hits == SelectSeq(AllCharts(SelectedFreight(desiredOrigin, f)),
                          LAMBDA c : c.RepoURL = repoURL /\ c.Name = chartName)
    IN IF hits = << >> THEN << >> ELSE <<hits[1]>>

\* freight.FindCommit: << >> is nil (no match), <<c>> the commit found
FindCommit(desiredOrigin, f, repoURL) ==
    LET hits == SelectSeq(AllCommits(SelectedFreight(desiredOrigin, f)),
                          LAMBDA c : c.RepoURL = repoURL)
    IN IF hits = << >> THEN << >> ELSE <<hits[1]>>

----------------------------------------------------------------------------
(* GetDesiredRevisions, internal/argocd/revision.go *)

\* line 42: case source.Chart != ""
IsHelmSource(source) == source.Chart # EMPTY

IsGitSourceRepoOnly(source) == source.RepoURL # EMPTY

\* line 99: case source.RepoURL != "" (reached only when line 42 is false)
IsGitSource(source) == source.Chart = EMPTY /\ source.RepoURL # EMPTY

\* line 52: the override test of the Helm case
HelmSourceUpdateMatches(sourceUpdate, source) ==
    sourceUpdate.RepoURL = source.RepoURL /\ sourceUpdate.Chart = source.Chart

\* line 107: the override test of the Git case
GitSourceUpdateMatches(sourceUpdate, source) ==
    sourceUpdate.RepoURL = source.RepoURL

SourceUpdateMatches(sourceUpdate, source) ==
    IF IsHelmSource(source)
    THEN HelmSourceUpdateMatches(sourceUpdate, source)
    ELSE GitSourceUpdateMatches(sourceUpdate, source)

MatchingSourceUpdates(source) ==
    {i \in 1..Len(update.SourceUpdates) :
        SourceUpdateMatches(update.SourceUpdates[i], source)}

LastMatchingSourceUpdate(source) ==
    LET m == MatchingSourceUpdates(source)
    IN IF m = {} THEN 0 ELSE CHOOSE i \in m : \A j \in m : j <= i

\* lines 50-56 and 105-111: the loop stops at the first match (break);
\* 0 stands for targetPromoMechanism == nil
FirstMatchingSourceUpdate(source) ==
    LET m == MatchingSourceUpdates(source)
    IN IF m = {} THEN 0 ELSE CHOOSE i \in m : \A j \in m : i <= j

CarriedTargetPromoMechanism(matched) ==
    IF matched # 0 THEN update.SourceUpdates[matched]
    ELSE IF log # << >> /\ log[Len(log)].matched # 0
         THEN update.SourceUpdates[log[Len(log)].matched]
         ELSE update

\* lines 49, 57-59 and 104, 112-114: targetPromoMechanism is declared inside
\* the case, so it starts nil for every source
TargetPromoMechanism(matched) ==
    IF matched # 0 THEN update.SourceUpdates[matched] ELSE update

\* lines 63-81: the repo URL and chart name handed to freight.FindChart
ChartReference(repoURL, chartName) ==
    IF ~Contains(repoURL, SCHEME_SEP)
    THEN [RepoURL |-> OCI_PREFIX \o TrimSuffix(repoURL, SLASH) \o SLASH \o chartName,
          Chart   |-> EMPTY]
    ELSE [RepoURL |-> repoURL, Chart |-> chartName]

GitRevisionAlwaysID(commit) == commit.ID

\* lines 132-136
GitRevision(commit) ==
    IF commit.HealthCheckCommit # ""
    THEN commit.HealthCheckCommit
    ELSE commit.ID

PrependRevision(revs, r) == <<r>> \o revs

\* lines 98, 133, 136: revisions = append(revisions, r)
AppendRevision(revs, r) == Append(revs, r)

DropUndetermined(revs) == revs

\* lines 94-97 and 128-131: revisions = append(revisions, ""); continue
AppendUndetermined(revs) == Append(revs, "")

LogEntry(kind, matched, origin, repoURL, chart, result, revision, pos) ==
    [idx |-> idx, kind |-> kind, matched |-> matched, origin |-> origin,
     repoURL |-> repoURL, chart |-> chart, result |-> result,
     revision |-> revision, pos |-> pos]

NewRevisionsDeclaredOnly == TRUE

\* line 26: revisions := []string{} is an empty slice, not a nil one
NewRevisionsIsNil == FALSE

\* line 27: without an Application or without any source nothing is resolved
NoDeterminableSource(a) == a.IsNil \/ (a.Source = << >> /\ a.SourcesNil)

\* lines 26-34
Call ==
    /\ pc = "start"
    /\ revisions' = << >>
    /\ revisionsNil' = NewRevisionsIsNil
    /\ IF NoDeterminableSource(app)
       THEN /\ pc' = "done"
            /\ UNCHANGED <<sources, idx>>
       ELSE /\ sources' = IF app.SourcesNil THEN <<app.Source[1]>> ELSE app.Sources
            /\ idx' = 1
            /\ pc' = "loop"
    /\ UNCHANGED <<app, update, frght, lookupFault, err, log, nonResolverVars>>

\* lines 42-98: one iteration for a source that points to a Helm chart
HelmSource ==
    /\ pc = "loop"
    /\ idx <= Len(sources)
    /\ IsHelmSource(sources[idx])
    /\ LET source        == sources[idx]
           matched       == FirstMatchingSourceUpdate(source)
           desiredOrigin == GetDesiredOrigin(TargetPromoMechanism(matched))
       IN IF app.Source = << >>
          THEN \* line 61: app.Spec.Source is nil
               /\ pc' = "panic"
               /\ UNCHANGED <<idx, revisions, revisionsNil, err, log>>
          ELSE LET ref   == ChartReference(app.Source[1].RepoURL, app.Source[1].Chart)
                   chart == FindChart(desiredOrigin, frght, ref.RepoURL, ref.Chart)
               IN IF lookupFault = idx
                  THEN \* lines 91-93
                       /\ err' = [msg |-> "error finding chart from repo",
                                  repo |-> source.RepoURL]
                       /\ pc' = "done"
                       /\ log' = Append(log, LogEntry("helm", matched, desiredOrigin,
                                           ref.RepoURL, ref.Chart, "error", "", 0))
                       /\ UNCHANGED <<idx, revisions, revisionsNil>>
                  ELSE IF chart = << >>
                  THEN \* lines 94-97
                       /\ revisions' = AppendUndetermined(revisions)
                       /\ log' = Append(log, LogEntry("helm", matched, desiredOrigin,
                                           ref.RepoURL, ref.Chart, "nil", "",
                                           Len(revisions) + 1))
                       /\ idx' = idx + 1
                       /\ revisionsNil' = FALSE
                       /\ UNCHANGED <<pc, err>>
                  ELSE \* line 98
                       /\ revisions' = AppendRevision(revisions, chart[1].Version)
                       /\ log' = Append(log, LogEntry("helm", matched, desiredOrigin,
                                           ref.RepoURL, ref.Chart, "found",
                                           chart[1].Version, Len(revisions) + 1))
                       /\ idx' = idx + 1
                       /\ revisionsNil' = FALSE
                       /\ UNCHANGED <<pc, err>>
    /\ UNCHANGED <<app, update, frght, lookupFault, sources, nonResolverVars>>

\* lines 99-136: one iteration for a source that points to a Git repository
GitSource ==
    /\ pc = "loop"
    /\ idx <= Len(sources)
    /\ IsGitSource(sources[idx])
    /\ LET source        == sources[idx]
           matched       == FirstMatchingSourceUpdate(source)
           desiredOrigin == GetDesiredOrigin(TargetPromoMechanism(matched))
           commit        == FindCommit(desiredOrigin, frght, source.RepoURL)
       IN IF lookupFault = idx
          THEN \* lines 124-127
               /\ err' = [msg |-> "error finding commit from repo",
                          repo |-> source.RepoURL]
               /\ pc' = "done"
               /\ log' = Append(log, LogEntry("git", matched, desiredOrigin,
                                   source.RepoURL, EMPTY, "error", "", 0))
               /\ UNCHANGED <<idx, revisions, revisionsNil>>
          ELSE IF commit = << >>
          THEN \* lines 128-131
               /\ revisions' = AppendUndetermined(revisions)
               /\ log' = Append(log, LogEntry("git", matched, desiredOrigin,
                                   source.RepoURL, EMPTY, "nil", "",
                                   Len(revisions) + 1))
               /\ idx' = idx + 1
               /\ revisionsNil' = FALSE
               /\ UNCHANGED <<pc, err>>
          ELSE \* lines 132-136
               /\ revisions' = AppendRevision(revisions, GitRevision(commit[1]))
               /\ log' = Append(log, LogEntry("git", matched, desiredOrigin,
                                   source.RepoURL, EMPTY, "found",
                                   GitRevision(commit[1]), Len(revisions) + 1))
               /\ idx' = idx + 1
               /\ revisionsNil' = FALSE
               /\ UNCHANGED <<pc, err>>
    /\ UNCHANGED <<app, update, frght, lookupFault, sources, nonResolverVars>>

\* lines 41-137: neither case of the switch applies; nothing is appended
SkipSource ==
    /\ pc = "loop"
    /\ idx <= Len(sources)
    /\ ~IsHelmSource(sources[idx])
    /\ ~IsGitSource(sources[idx])
    /\ idx' = idx + 1
    /\ UNCHANGED <<app, update, frght, lookupFault, pc, sources, revisions,
                   revisionsNil, err, log, nonResolverVars>>

\* lines 138-140: the range loop is over
Return ==
    /\ pc = "loop"
    /\ idx > Len(sources)
    /\ pc' = "done"
    /\ UNCHANGED <<app, update, frght, lookupFault, sources, idx, revisions,
                   revisionsNil, err, log, nonResolverVars>>

ResolverIdle ==
    /\ app = NilApp
    /\ update = [Origin |-> NilOrigin, SourceUpdates |-> << >>]
    /\ frght = << >>
    /\ lookupFault = 0
    /\ pc = "idle"
    /\ sources = << >>
    /\ idx = 0
    /\ revisions = << >>
    /\ revisionsNil = TRUE
    /\ err = NoError
    /\ log = << >>

NormIdle ==
    /\ nRepo = EMPTY
    /\ nChart = EMPTY
    /\ nHist = << >>

EmptyStageState == [Commits |-> << >>, Images |-> << >>]

BkIdle ==
    /\ bkUpdates = << >>
    /\ bkInput = EmptyStageState
    /\ bkCaller = EmptyStageState
    /\ bkState = EmptyStageState
    /\ bkShared = TRUE
    /\ bkTodo = << >>
    /\ bkIdx = 0
    /\ bkPc = "idle"
    /\ bkErr = ""
    /\ bkLog = << >>
    /\ bkFirst = << >>
    /\ bkRepeated = FALSE

SchIdle ==
    /\ schKind = "none"
    /\ schConfig = << >>
    /\ schVerdict = "idle"

CvIdle ==
    /\ cvBefore = << >>
    /\ cvAfter = << >>
    /\ cvChanges = << >>
    /\ cvApplied = << >>
    /\ cvPc = "idle"
    /\ cvMessage = << >>

PuIdle ==
    /\ puCharts = << >>
    /\ puDeps = << >>
    /\ puFreight = << >>
    /\ puIdx = 0
    /\ puChanges = << >>
    /\ puErr = ""
    /\ puLog = << >>
    /\ puPc = "idle"

LdIdle ==
    /\ ldDeps = << >>
    /\ ldIdx = 0
    /\ ldRepositories = << >>
    /\ ldLogins = << >>
    /\ ldErr = [msg |-> "", cause |-> ""]
    /\ ldLog = << >>
    /\ ldPc = "idle"

PlIdle ==
    /\ plSteps = << >>
    /\ plIdx = 0
    /\ plResults = << >>
    /\ plRan = << >>
    /\ plStatus = ""
    /\ plErr = ""
    /\ plPc = "idle"

HtIdle ==
    /\ htConfigValid = FALSE
    /\ htKubeVersion = ""
    /\ htDeclared = [IsNil |-> TRUE, Names |-> {}]
    /\ htVendored = {}
    /\ htFile0 = ""
    /\ htFile = ""
    /\ htInstall = << >>
    /\ htTrace = << >>
    /\ htResult = [Status |-> "", err |-> ""]
    /\ htPc = "idle"

WhIdle ==
    /\ whTracks = << >>
    /\ whRepo = ""
    /\ whTag = ""
    /\ whListFails = FALSE
    /\ whSubscribed = << >>
    /\ whIdx = 0
    /\ whTickets = << >>
    /\ whErr = ""
    /\ whPc = "idle"

NonResolverIdle ==
    /\ NormIdle
    /\ BkIdle
    /\ SchIdle
    /\ CvIdle
    /\ PuIdle
    /\ LdIdle
    /\ PlIdle
    /\ HtIdle
    /\ WhIdle

NonNormIdle ==
    /\ ResolverIdle
    /\ BkIdle
    /\ SchIdle
    /\ CvIdle
    /\ PuIdle
    /\ LdIdle
    /\ PlIdle
    /\ HtIdle
    /\ WhIdle

NonBkIdle ==
    /\ ResolverIdle
    /\ NormIdle
    /\ SchIdle
    /\ CvIdle
    /\ PuIdle
    /\ LdIdle
    /\ PlIdle
    /\ HtIdle
    /\ WhIdle

NonSchIdle ==
    /\ ResolverIdle
    /\ NormIdle
    /\ BkIdle
    /\ CvIdle
    /\ PuIdle
    /\ LdIdle
    /\ PlIdle
    /\ HtIdle
    /\ WhIdle

NonCvIdle ==
    /\ ResolverIdle
    /\ NormIdle
    /\ BkIdle
    /\ SchIdle
    /\ PuIdle
    /\ LdIdle
    /\ PlIdle
    /\ HtIdle
    /\ WhIdle

NonPuIdle ==
    /\ ResolverIdle
    /\ NormIdle
    /\ BkIdle
    /\ SchIdle
    /\ CvIdle
    /\ LdIdle
    /\ PlIdle
    /\ HtIdle
    /\ WhIdle

NonLdIdle ==
    /\ ResolverIdle
    /\ NormIdle
    /\ BkIdle
    /\ SchIdle
    /\ CvIdle
    /\ PuIdle
    /\ PlIdle
    /\ HtIdle
    /\ WhIdle

NonPlIdle ==
    /\ ResolverIdle
    /\ NormIdle
    /\ BkIdle
    /\ SchIdle
    /\ CvIdle
    /\ PuIdle
    /\ LdIdle
    /\ HtIdle
    /\ WhIdle

NonHtIdle ==
    /\ ResolverIdle
    /\ NormIdle
    /\ BkIdle
    /\ SchIdle
    /\ CvIdle
    /\ PuIdle
    /\ LdIdle
    /\ PlIdle
    /\ WhIdle

NonWhIdle ==
    /\ ResolverIdle
    /\ NormIdle
    /\ BkIdle
    /\ SchIdle
    /\ CvIdle
    /\ PuIdle
    /\ LdIdle
    /\ PlIdle
    /\ HtIdle

Init ==
    /\ app \in Applications
    /\ update \in AppUpdates
    /\ frght \in FreightPools
    /\ lookupFault \in 0..NumSources(app)
    /\ pc = "start"
    /\ sources = << >>
    /\ idx = 0
    /\ revisions = << >>
    /\ revisionsNil = TRUE
    /\ err = NoError
    /\ log = << >>
    /\ NonResolverIdle

Next ==
    \/ Call
    \/ HelmSource
    \/ GitSource
    \/ SkipSource
    \/ Return

Spec == Init /\ [][Next]_vars

----------------------------------------------------------------------------
(* Chart-reference normalization of the helm-update-chart directive *)

MaxNormalize == 3

NormRepoURLs ==
    {OCI_R, OCI_R_SLASH, OCI_R_C, URL_X, URL_X \o SLASH \o REG, URL_Y,
     LOCAL_PATH, EMPTY, REG, REG_SLASH}

NormChartNames == {EMPTY, CHART_C, CHART_D}

SchemeTestChartReference(repoURL, chartName) ==
    IF ~Contains(repoURL, SCHEME_SEP)
    THEN [RepoURL |-> OCI_PREFIX \o TrimSuffix(repoURL, SLASH) \o SLASH \o chartName,
          Chart   |-> EMPTY]
    ELSE [RepoURL |-> repoURL, Chart |-> chartName]

\* normalizeChartReference(repoURL, chartName), as Test_normalizeChartReference
\* pins it down: an oci:// reference has the chart name folded into the URL
normalizeChartReference(repoURL, chartName) ==
    IF HasPrefix(repoURL, OCI_PREFIX)
    THEN [RepoURL |-> TrimSuffix(repoURL, SLASH) \o SLASH \o chartName,
          Chart   |-> EMPTY]
    ELSE [RepoURL |-> repoURL, Chart |-> chartName]

NormInit ==
    /\ nRepo \in NormRepoURLs
    /\ nChart \in NormChartNames
    /\ nHist = << >>
    /\ NonNormIdle

\* one application of normalizeChartReference to the current pair
Normalize ==
    /\ Len(nHist) < MaxNormalize
    /\ LET out == normalizeChartReference(nRepo, nChart)
       IN /\ nRepo' = out.RepoURL
          /\ nChart' = out.Chart
    /\ nHist' = Append(nHist, [RepoURL |-> nRepo, Chart |-> nChart])
    /\ UNCHANGED nonNormVars

NormNext == Normalize

NormSpec == NormInit /\ [][NormNext]_vars

----------------------------------------------------------------------------
(* Bookkeeper promotion mechanism: Promote and doSingleUpdate *)

REPO_A == "https://git.example.com/a"

REPO_B == "https://git.example.com/b"

READ_BRANCH == "main"

GitRepoUpdate(repoURL, bookkeeper) ==
    [RepoURL |-> repoURL, ReadBranch |-> READ_BRANCH, Bookkeeper |-> bookkeeper]

GitRepoUpdateChoices ==
    {GitRepoUpdate(r, b) : r \in {REPO_A, REPO_B}, b \in BOOLEAN}

StageCommit(repoURL, id, healthCheckCommit) ==
    [RepoURL |-> repoURL, ID |-> id, HealthCheckCommit |-> healthCheckCommit]

StageCommitChoices ==
    {StageCommit(REPO_A, "a1", "h0"), StageCommit(REPO_A, "a2", ""),
     StageCommit(REPO_B, "b1", "")}

StageImage == [RepoURL |-> "registry/app", Tag |-> "v1"]

StageStates ==
    {[Commits |-> cs, Images |-> <<StageImage>>] :
        cs \in DistinctSeqsUpTo(StageCommitChoices, MaxCommits)}

Response(readRef, creds, action, commitID) ==
    [readRef |-> readRef, creds |-> creds, action |-> action, commitID |-> commitID]

\* What the three collaborators of one doSingleUpdate call answer: the
\* read-ref resolution fails or not, the credentials lookup fails, finds
\* credentials or finds none, and the render collaborator fails or reports
\* an action with a commit ID.
RenderResponses ==
    {<<"PushedDirectly", "c1">>, <<"PushedDirectly", "c2">>, <<"None", "c1">>,
     <<"OpenedPR", "">>}

Responses ==
    {Response("error", "uncalled", "uncalled", "")}
    \cup {Response("ok", "error", "uncalled", "")}
    \cup {Response("ok", c, "error", "") : c \in {"found", "notfound"}}
    \cup {Response("ok", c, r[1], r[2]) :
            c \in {"found", "notfound"}, r \in RenderResponses}

\* Promote, lines 67-72.
BookkeeperUpdates(updates) == SelectSeq(updates, LAMBDA u : u.Bookkeeper)

ShallowCopySharesCommits == TRUE

\* Promote, line 78: the copy has the same value and its own Commits array.
DeepCopySharesCommits == FALSE

\* Promote, lines 82-86.
FormatImages(images) ==
    [i \in 1..Len(images) |-> <<images[i].RepoURL, ":", images[i].Tag>>]

\* getReadRef: the index (as Go counts, -1 when there is none) of the first
\* commit recorded for the update's repository, and the ref to read from.
RECURSIVE FirstCommitFrom(_, _, _)
FirstCommitFrom(commits, repoURL, i) ==
    IF i > Len(commits) THEN -1
    ELSE IF commits[i].RepoURL = repoURL THEN i - 1
    ELSE FirstCommitFrom(commits, repoURL, i + 1)

getReadRef(upd, commits) ==
    LET commitIndex == FirstCommitFrom(commits, upd.RepoURL, 1)
    IN [readRef |-> IF commitIndex > -1 THEN commits[commitIndex + 1].ID
                    ELSE upd.ReadBranch,
        commitIndex |-> commitIndex]

StoredCredentials(resp) == "credentials"

\* doSingleUpdate, lines 135-143.
RepoCredentials(resp) ==
    IF resp.creds = "found" THEN "credentials" ELSE ""

\* doSingleUpdate, lines 145-151.
RenderRequest(upd, readRef, resp, images) ==
    [RepoURL |-> upd.RepoURL, RepoCreds |-> RepoCredentials(resp),
     Ref |-> readRef, Images |-> images]

SetHealthCheckCommit(state, commitIndex, commitID) ==
    IF commitIndex > -1
    THEN [state EXCEPT !.Commits[commitIndex + 1].HealthCheckCommit = commitID]
    ELSE state

ApplyActionPushOnly(state, commitIndex, resp) ==
    IF resp.action = "PushedDirectly"
    THEN SetHealthCheckCommit(state, commitIndex, resp.commitID)
    ELSE state

ApplyActionAny(state, commitIndex, resp) ==
    SetHealthCheckCommit(state, commitIndex, resp.commitID)

\* doSingleUpdate, lines 161-175.
ApplyAction(state, commitIndex, resp) ==
    CASE resp.action = "PushedDirectly" ->
             SetHealthCheckCommit(state, commitIndex, resp.commitID)
      [] resp.action = "None" ->
             SetHealthCheckCommit(state, commitIndex, resp.commitID)
      [] OTHER -> state

\* doSingleUpdate, lines 108-178: the calls made, the request rendered, the
\* state and the error returned.
doSingleUpdate(upd, state, images, resp) ==
    LET rr == getReadRef(upd, state.Commits)
        req == RenderRequest(upd, rr.readRef, resp, images)
        base == [update |-> upd, resp |-> resp, commitIndex |-> rr.commitIndex,
                 before |-> state]
    IN  IF resp.readRef = "error"
        THEN base @@ [calls |-> <<"getReadRef">>, req |-> << >>,
                      after |-> state, err |-> "error resolving read ref"]
        ELSE IF resp.creds = "error"
        THEN base @@ [calls |-> <<"getReadRef", "getCredentials">>, req |-> << >>,
                      after |-> state,
                      err |-> "error obtaining credentials for git repo"]
        ELSE IF resp.action = "error"
        THEN base @@ [calls |-> <<"getReadRef", "getCredentials", "renderManifests">>,
                      req |-> <<req>>, after |-> state,
                      err |-> "error rendering manifests for git repo"]
        ELSE base @@ [calls |-> <<"getReadRef", "getCredentials", "renderManifests">>,
                      req |-> <<req>>,
                      after |-> ApplyAction(state, rr.commitIndex, resp),
                      err |-> ""]

PromoteIgnoresError(e) == FALSE

\* Promote, line 96.
PromoteStops(e) == e # ""

\* Promote, lines 62-86.
Promote ==
    /\ bkPc = "start"
    /\ bkTodo' = BookkeeperUpdates(bkUpdates)
    /\ IF Len(bkTodo') = 0
       THEN /\ bkState' = bkInput
            /\ bkShared' = TRUE
            /\ bkPc' = "done"
            /\ bkIdx' = 0
       ELSE /\ bkState' = bkInput
            /\ bkShared' = DeepCopySharesCommits
            /\ bkPc' = "loop"
            /\ bkIdx' = 1
    /\ bkErr' = ""
    /\ UNCHANGED <<bkUpdates, bkInput, bkCaller, bkLog, bkFirst, bkRepeated>>
    /\ UNCHANGED nonBkVars

\* Promote, lines 88-99, one iteration, with the doSingleUpdate call it makes.
DoSingleUpdate ==
    /\ bkPc = "loop"
    /\ bkIdx <= Len(bkTodo)
    /\ \E resp \in Responses :
        /\ bkRepeated => resp = bkFirst[bkIdx].resp
        /\ LET r == doSingleUpdate(bkTodo[bkIdx], bkState,
                                   FormatImages(bkState.Images), resp)
           IN /\ bkLog' = Append(bkLog, r)
              /\ bkState' = r.after
              /\ bkCaller' = IF bkShared
                             THEN [bkCaller EXCEPT !.Commits = r.after.Commits]
                             ELSE bkCaller
              /\ IF PromoteStops(r.err)
                 THEN /\ bkErr' = r.err
                      /\ bkPc' = "done"
                      /\ bkIdx' = bkIdx
                 ELSE /\ bkErr' = bkErr
                      /\ bkPc' = bkPc
                      /\ bkIdx' = bkIdx + 1
    /\ UNCHANGED <<bkUpdates, bkInput, bkShared, bkTodo, bkFirst, bkRepeated>>
    /\ UNCHANGED nonBkVars

\* Promote, lines 101-103.
PromoteReturn ==
    /\ bkPc = "loop"
    /\ bkIdx > Len(bkTodo)
    /\ bkPc' = "done"
    /\ UNCHANGED <<bkUpdates, bkInput, bkCaller, bkState, bkShared, bkTodo,
                   bkIdx, bkErr, bkLog, bkFirst, bkRepeated>>
    /\ UNCHANGED nonBkVars

\* The caller repeats a promotion that succeeded: same stage, the state the
\* first promotion returned, and collaborators that answer as they did.
PromoteAgain ==
    /\ bkPc = "done"
    /\ bkErr = ""
    /\ ~bkRepeated
    /\ bkRepeated' = TRUE
    /\ bkFirst' = bkLog
    /\ bkLog' = << >>
    /\ bkInput' = bkState
    /\ bkCaller' = bkState
    /\ bkShared' = TRUE
    /\ bkPc' = "start"
    /\ bkIdx' = 0
    /\ UNCHANGED <<bkUpdates, bkState, bkTodo, bkErr>>
    /\ UNCHANGED nonBkVars

BkInit ==
    /\ bkUpdates \in SeqsUpTo(GitRepoUpdateChoices, MaxGitRepoUpdates)
    /\ bkInput \in StageStates
    /\ bkCaller = bkInput
    /\ bkState = bkInput
    /\ bkShared = TRUE
    /\ bkTodo = << >>
    /\ bkIdx = 0
    /\ bkPc = "start"
    /\ bkErr = ""
    /\ bkLog = << >>
    /\ bkFirst = << >>
    /\ bkRepeated = FALSE
    /\ NonBkIdle

BkNext ==
    \/ Promote
    \/ DoSingleUpdate
    \/ PromoteReturn
    \/ PromoteAgain

BkSpec == BkInit /\ [][BkNext]_vars

----------------------------------------------------------------------------
(* Configuration schemas of the git-push and git-wait-for-pr directives *)

\* JSON values: a property that is absent, null, a boolean, a string (a
\* sequence of characters) or a number.
Absent == [t |-> "absent"]

Null == [t |-> "null"]

Bool(b) == [t |-> "boolean", v |-> b]

Str(s) == [t |-> "string", v |-> s]

Num(n) == [t |-> "number", v |-> n]

JsonEq(a, b) ==
    /\ a.t = b.t
    /\ a.t \in {"boolean", "string", "number"} => a.v = b.v

\* Keywords of JSON Schema, draft 2020-12. The keywords under "properties"
\* constrain a property only when the configuration has it; "format" is an
\* annotation and decides nothing.
Present(cfg, p) == cfg[p].t # "absent"

Required(cfg, ps) == \A p \in ps : Present(cfg, p)

TypeIs(v, type) == v.t = type

MinLength(v, n) == v.t = "string" => Len(v.v) >= n

Enum(v, es) == \E i \in 1..Len(es) : JsonEq(v, es[i])

Const(v, c) == JsonEq(v, c)

AdditionalPropertiesFalse(cfg, known) ==
    \A p \in DOMAIN cfg : Present(cfg, p) => p \in known

AnyNumberOf(branches) == TRUE

OneOf(branches) == Cardinality({i \in DOMAIN branches : branches[i]}) = 1

GitPushProperties == {"generateTargetBranch", "path", "targetBranch"}

\* git-overwrite-config.json, lines 27-41.
GitPushPropertiesValid(cfg) ==
    /\ Present(cfg, "generateTargetBranch") =>
            TypeIs(cfg["generateTargetBranch"], "boolean")
    /\ Present(cfg, "path") =>
            /\ TypeIs(cfg["path"], "string")
            /\ MinLength(cfg["path"], 1)
    /\ Present(cfg, "targetBranch") => TypeIs(cfg["targetBranch"], "string")

\* git-overwrite-config.json, lines 43-49.
GitPushGenerates(cfg) ==
    /\ Required(cfg, {"generateTargetBranch"})
    /\ Present(cfg, "generateTargetBranch") =>
            Const(cfg["generateTargetBranch"], Bool(TRUE))
    /\ Present(cfg, "targetBranch") =>
            Enum(cfg["targetBranch"], <<Str(EMPTY), Null>>)

\* git-overwrite-config.json, lines 50-56.
GitPushTargets(cfg) ==
    /\ Required(cfg, {"targetBranch"})
    /\ Present(cfg, "generateTargetBranch") =>
            Enum(cfg["generateTargetBranch"], <<Null, Bool(FALSE)>>)
    /\ Present(cfg, "targetBranch") => MinLength(cfg["targetBranch"], 1)

\* git-overwrite-config.json, lines 21-58.
GitPushConfig(cfg) ==
    /\ AdditionalPropertiesFalse(cfg, GitPushProperties)
    /\ Required(cfg, {"path"})
    /\ GitPushPropertiesValid(cfg)
    /\ OneOf(<<GitPushGenerates(cfg), GitPushTargets(cfg)>>)

GitWaitForPRProperties ==
    {"insecureSkipTLSVerify", "provider", "prNumber", "prNumberFromOpen", "repoURL"}

\* git-wait-for-pr-config.json, lines 7-32.
GitWaitForPRPropertiesValid(cfg) ==
    /\ Present(cfg, "insecureSkipTLSVerify") =>
            TypeIs(cfg["insecureSkipTLSVerify"], "boolean")
    /\ Present(cfg, "provider") =>
            /\ TypeIs(cfg["provider"], "string")
            /\ Enum(cfg["provider"], <<Str(<<"github">>), Str(<<"gitlab">>)>>)
    /\ Present(cfg, "prNumber") => TypeIs(cfg["prNumber"], "number")
    /\ Present(cfg, "prNumberFromOpen") =>
            /\ TypeIs(cfg["prNumberFromOpen"], "string")
            /\ MinLength(cfg["prNumberFromOpen"], 1)
    /\ Present(cfg, "repoURL") =>
            /\ TypeIs(cfg["repoURL"], "string")
            /\ MinLength(cfg["repoURL"], 1)

\* git-wait-for-pr-config.json, lines 34-39.
GitWaitForPRByNumber(cfg) ==
    /\ Required(cfg, {"prNumber"})
    /\ Present(cfg, "prNumberFromOpen") =>
            Enum(cfg["prNumberFromOpen"], <<Str(EMPTY), Null>>)

\* git-wait-for-pr-config.json, lines 40-45.
GitWaitForPRFromOpen(cfg) ==
    /\ Required(cfg, {"prNumberFromOpen"})
    /\ Present(cfg, "prNumber") => Enum(cfg["prNumber"], <<Num(0), Null>>)

\* git-wait-for-pr-config.json, lines 1-47.
GitWaitForPRConfig(cfg) ==
    /\ AdditionalPropertiesFalse(cfg, GitWaitForPRProperties)
    /\ Required(cfg, {"repoURL"})
    /\ GitWaitForPRPropertiesValid(cfg)
    /\ OneOf(<<GitWaitForPRByNumber(cfg), GitWaitForPRFromOpen(cfg)>>)

Unknowns == {Absent, Str(<<"x">>)}

GitPushConfigs ==
    [generateTargetBranch : {Absent, Null, Bool(TRUE), Bool(FALSE)},
     path : {Absent, Str(EMPTY), Str(LOCAL_PATH)},
     targetBranch : {Absent, Null, Str(EMPTY), Str(<<"m">>)},
     unknown : Unknowns]

GitWaitForPRConfigs ==
    [insecureSkipTLSVerify : {Absent, Bool(TRUE)},
     provider : {Absent, Str(<<"github">>), Str(<<"svn">>)},
     prNumber : {Absent, Null, Num(0), Num(7)},
     prNumberFromOpen : {Absent, Null, Str(EMPTY), Str(<<"o">>)},
     repoURL : {Absent, Str(EMPTY), Str(URL_X)},
     unknown : Unknowns]

Verdict(valid) == IF valid THEN "valid" ELSE "ConfigInvalid"

ValidateGitPush ==
    /\ schKind = "git-push"
    /\ schVerdict = "pending"
    /\ schVerdict' = Verdict(GitPushConfig(schConfig))
    /\ UNCHANGED <<schKind, schConfig>>
    /\ UNCHANGED nonSchVars

ValidateGitWaitForPR ==
    /\ schKind = "git-wait-for-pr"
    /\ schVerdict = "pending"
    /\ schVerdict' = Verdict(GitWaitForPRConfig(schConfig))
    /\ UNCHANGED <<schKind, schConfig>>
    /\ UNCHANGED nonSchVars

SchInit ==
    /\ \/ schKind = "git-push" /\ schConfig \in GitPushConfigs
       \/ schKind = "git-wait-for-pr" /\ schConfig \in GitWaitForPRConfigs
    /\ schVerdict = "pending"
    /\ NonSchIdle

SchNext ==
    \/ ValidateGitPush
    \/ ValidateGitWaitForPR

SchSpec == SchInit /\ [][SchNext]_vars

----------------------------------------------------------------------------
(* Chart version changes of the helm-update-chart directive *)

MaxCharts == 3

ChartNameList == <<"chart1", "chart2", "chart3", "chart4">>

CvChartNames == {ChartNameList[i] : i \in 1..MaxCharts}

\* Versions as a Chart.lock records them: resolved, never empty.
CvVersions == {"1.0.0", "1.1.0"}

\* map[string]string from chart name to version
VersionMaps == UNION {[names -> CvVersions] : names \in SUBSET CvChartNames}

ARROW == " -> "

\* A change is a string, held as its parts: old, " -> ", new for a bump, the
\* new version for an addition, nothing for a removal.
compareReportsNewVersion(before, after) ==
    LET changed == {n \in DOMAIN before \cup DOMAIN after :
                        \/ n \notin DOMAIN before
                        \/ n \notin DOMAIN after
                        \/ before[n] # after[n]}
    IN [n \in changed |->
            IF n \in DOMAIN after THEN <<after[n]>> ELSE << >>]

compareIgnoresRemovals(before, after) ==
    LET changed == {n \in DOMAIN after :
                        n \notin DOMAIN before \/ before[n] # after[n]}
    IN [n \in changed |->
            IF n \in DOMAIN before THEN <<before[n], ARROW, after[n]>>
            ELSE <<after[n]>>]

compareChartVersions(before, after) ==
    LET changed == {n \in DOMAIN before \cup DOMAIN after :
                        \/ n \notin DOMAIN before
                        \/ n \notin DOMAIN after
                        \/ before[n] # after[n]}
    IN [n \in changed |->
            IF n \in DOMAIN before /\ n \in DOMAIN after
            THEN <<before[n], ARROW, after[n]>>
            ELSE IF n \in DOMAIN after THEN <<after[n]>>
            ELSE << >>]

\* the version a change string sets, read from its text
NewVersionOf(change) ==
    IF Len(change) = 3 /\ change[2] = ARROW THEN change[3] ELSE change[1]

\* Applying a change-set to a version map: a change that is the empty string
\* deletes the name, any other sets the name to the version it names.
ApplyChanges(versions, changes) ==
    LET removed == {n \in DOMAIN changes : changes[n] = << >>}
        set == DOMAIN changes \ removed
    IN [n \in (DOMAIN versions \ removed) \cup set |->
            IF n \in set THEN NewVersionOf(changes[n]) ELSE versions[n]]

Compare ==
    /\ cvPc = "start"
    /\ cvChanges' = compareChartVersions(cvBefore, cvAfter)
    /\ cvPc' = "compared"
    /\ UNCHANGED <<cvBefore, cvAfter, cvApplied, cvMessage>>
    /\ UNCHANGED nonCvVars

Apply ==
    /\ cvPc = "compared"
    /\ cvApplied' = ApplyChanges(cvBefore, cvChanges)
    /\ cvPc' = "applied"
    /\ UNCHANGED <<cvBefore, cvAfter, cvChanges, cvMessage>>
    /\ UNCHANGED nonCvVars

CHART_PATH == "charts/mychart"

NEWLINE == "\n"

\* the orders in which the names of S can be visited
Orders(S) ==
    {o \in [1..Cardinality(S) -> S] :
        \A i, j \in 1..Cardinality(S) : i # j => o[i] # o[j]}

\* the text of one line of the message
ChangeLine(name, change) ==
    <<"- ", name, ": ">> \o (IF change = << >> THEN <<"removed">> ELSE change)

RECURSIVE ChangeLinesTerminated(_, _, _)
ChangeLinesTerminated(changes, order, i) ==
    IF i > Len(order) THEN << >>
    ELSE ChangeLine(order[i], changes[order[i]]) \o <<NEWLINE>>
            \o ChangeLinesTerminated(changes, order, i + 1)

RECURSIVE ChangeLines(_, _, _)
ChangeLines(changes, order, i) ==
    IF i > Len(order) THEN << >>
    ELSE <<NEWLINE>> \o ChangeLine(order[i], changes[order[i]])
            \o ChangeLines(changes, order, i + 1)

generateTerminatedMessage(path, changes, order) ==
    IF DOMAIN changes = {} THEN << >>
    ELSE <<"Updated chart dependencies for ", path, NEWLINE, NEWLINE>>
            \o ChangeLinesTerminated(changes, order, 1)

\* The message is held as its parts; order is the order in which the map of
\* changes is visited.
generateCommitMessage(path, changes, order) ==
    IF DOMAIN changes = {} THEN << >>
    ELSE <<"Updated chart dependencies for ", path, NEWLINE>>
            \o ChangeLines(changes, order, 1)

GenerateCommitMessage ==
    /\ cvPc = "applied"
    /\ \E order \in Orders(DOMAIN cvChanges) :
            cvMessage' = generateCommitMessage(CHART_PATH, cvChanges, order)
    /\ cvPc' = "committed"
    /\ UNCHANGED <<cvBefore, cvAfter, cvChanges, cvApplied>>
    /\ UNCHANGED nonCvVars

CvInit ==
    /\ cvBefore \in VersionMaps
    /\ cvAfter \in VersionMaps
    /\ cvChanges = << >>
    /\ cvApplied = << >>
    /\ cvPc = "start"
    /\ cvMessage = << >>
    /\ NonCvIdle

CvNext ==
    \/ Compare
    \/ Apply
    \/ GenerateCommitMessage

CvSpec == CvInit /\ [][CvNext]_vars

----------------------------------------------------------------------------
(* processChartUpdates of the helm-update-chart directive *)

MaxConfigCharts == 2

MaxDependencies == 2

\* HelmUpdateChartConfig.Charts[i]; FromOrigin NilOrigin is a nil pointer
ConfigChart(repository, name, fromOrigin) ==
    [Repository |-> repository, Name |-> name, FromOrigin |-> fromOrigin]

ConfigChartChoices ==
    {ConfigChart(URL_X, CHART_C, NilOrigin), ConfigChart(URL_X, CHART_C, W2),
     ConfigChart(URL_X, CHART_D, NilOrigin), ConfigChart(OCI_R, CHART_C, NilOrigin)}

\* cfg.Charts: each chart is configured once
ConfigChartLists ==
    {cs \in SeqsUpTo(ConfigChartChoices, MaxConfigCharts) :
        \A i, j \in 1..Len(cs) :
            i # j => \/ cs[i].Repository # cs[j].Repository
                     \/ cs[i].Name # cs[j].Name}

chartDependency(repository, name) == [Repository |-> repository, Name |-> name]

ChartDependencyChoices ==
    {chartDependency(URL_X, CHART_C), chartDependency(URL_X, CHART_D),
     chartDependency(OCI_R, CHART_C)}

AnyOriginOf(chartUpdate) == NilOrigin

\* the origin a configured chart is looked up with
DesiredOriginOf(chartUpdate) == chartUpdate.FromOrigin

\* the index, as Go counts, of the dependency a configured chart names, or -1
RECURSIVE DependencyIndexFrom(_, _, _)
DependencyIndexFrom(deps, chartUpdate, i) ==
    IF i > Len(deps) THEN -1
    ELSE IF /\ deps[i].Repository = chartUpdate.Repository
            /\ deps[i].Name = chartUpdate.Name
         THEN i - 1
         ELSE DependencyIndexFrom(deps, chartUpdate, i + 1)

\* fmt.Sprintf("dependencies.%d.version", i), held as its parts
DependencyKey(i) == <<"dependencies.", i, ".version">>

\* one configured chart: the chart found for it, the dependency it names and
\* what becomes of it
ProcessOne(chartUpdate, deps, f, fault, undeclaredFails) ==
    LET ref == normalizeChartReference(chartUpdate.Repository, chartUpdate.Name)
        found == FindChart(DesiredOriginOf(chartUpdate), f, ref.RepoURL, ref.Chart)
        i == DependencyIndexFrom(deps, chartUpdate, 1)
    IN [chart |-> chartUpdate, found |-> IF fault THEN << >> ELSE found,
        index |-> i,
        outcome |-> IF fault THEN "error"
                    ELSE IF found = << >> THEN "notfound"
                    ELSE IF i > -1 THEN "changed"
                    ELSE IF undeclaredFails THEN "error"
                    ELSE "undeclared"]

ProcessChartUpdate ==
    /\ puPc = "loop"
    /\ puIdx <= Len(puCharts)
    /\ \E fault \in BOOLEAN, undeclaredFails \in BOOLEAN :
        LET r == ProcessOne(puCharts[puIdx], puDeps, puFreight, fault, undeclaredFails)
        IN /\ puLog' = Append(puLog, r)
           /\ IF r.outcome = "error"
              THEN /\ puErr' = "error"
                   /\ puChanges' = << >>
                   /\ puPc' = "done"
                   /\ puIdx' = puIdx
              ELSE /\ puErr' = puErr
                   /\ puChanges' =
                        IF r.outcome = "changed"
                        THEN (DependencyKey(r.index) :> r.found[1].Version) @@ puChanges
                        ELSE puChanges
                   /\ puPc' = puPc
                   /\ puIdx' = puIdx + 1
    /\ UNCHANGED <<puCharts, puDeps, puFreight>>
    /\ UNCHANGED nonPuVars

ProcessReturn ==
    /\ puPc = "loop"
    /\ puIdx > Len(puCharts)
    /\ puPc' = "done"
    /\ UNCHANGED <<puCharts, puDeps, puFreight, puIdx, puChanges, puErr, puLog>>
    /\ UNCHANGED nonPuVars

PuInit ==
    /\ puCharts \in ConfigChartLists
    /\ puDeps \in DistinctSeqsUpTo(ChartDependencyChoices, MaxDependencies)
    /\ puFreight \in FreightPools
    /\ puIdx = 1
    /\ puChanges = << >>
    /\ puErr = ""
    /\ puLog = << >>
    /\ puPc = "loop"
    /\ NonPuIdle

PuNext ==
    \/ ProcessChartUpdate
    \/ ProcessReturn

PuSpec == PuInit /\ [][PuNext]_vars

----------------------------------------------------------------------------
(* loadDependencyCredentials of the helm-update-chart directive *)

HTTPS_PREFIX == <<"h", "t", "t", "p", "s", ":", "/", "/">>

\* the repositories of the dependencies: each dependency has its own
DependencyRepositories == {URL_X, URL_Y, OCI_R}

NoCredentials == [Username |-> "", Password |-> ""]

CredentialChoices ==
    {[Username |-> "username", Password |-> "password"],
     [Username |-> "other", Password |-> "secret"]}

\* what credentialsDB.Get answers: credentials, found or not, and an error
LookupAnswers ==
    {[creds |-> c, ok |-> TRUE, err |-> ""] : c \in CredentialChoices}
    \cup {[creds |-> NoCredentials, ok |-> FALSE, err |-> ""],
          [creds |-> NoCredentials, ok |-> FALSE, err |-> "something went wrong"]}

NoLoadError == [msg |-> "", cause |-> ""]

\* fmt.Errorf("failed to obtain credentials ...: %w", err)
WrapLookupError(cause) == [msg |-> "failed to obtain credentials", cause |-> cause]

RepositoryEntry(url, creds) ==
    [URL |-> url, Username |-> creds.Username, Password |-> creds.Password]

PrependRepository(file, entry) == <<entry>> \o file

\* repositoryFile.Add
AddRepository(file, entry) == Append(file, entry)

LoadDependencyCredentials ==
    /\ ldPc = "loop"
    /\ ldIdx <= Len(ldDeps)
    /\ \E answer \in LookupAnswers, loginFails \in BOOLEAN, unauthenticatedFails \in BOOLEAN :
        LET repository == ldDeps[ldIdx]
            isHTTP == HasPrefix(repository, HTTPS_PREFIX)
            failed == IF answer.err # "" THEN WrapLookupError(answer.err)
                      ELSE IF ~isHTTP /\ answer.ok /\ loginFails
                           THEN [msg |-> "failed to authenticate", cause |-> "login"]
                      ELSE IF ~isHTTP /\ ~answer.ok /\ unauthenticatedFails
                           THEN [msg |-> "no credentials", cause |-> ""]
                      ELSE NoLoadError
        IN /\ ldLog' = Append(ldLog, [repository |-> repository, answer |-> answer,
                                      err |-> failed])
           /\ ldRepositories' =
                IF answer.err = "" /\ answer.ok /\ isHTTP
                THEN AddRepository(ldRepositories,
                                   RepositoryEntry(repository, answer.creds))
                ELSE ldRepositories
           /\ ldLogins' =
                IF answer.err = "" /\ answer.ok /\ ~isHTTP /\ ~loginFails
                THEN Append(ldLogins, RepositoryEntry(repository, answer.creds))
                ELSE ldLogins
           /\ IF failed # NoLoadError
              THEN ldErr' = failed /\ ldPc' = "done" /\ ldIdx' = ldIdx
              ELSE ldErr' = ldErr /\ ldPc' = ldPc /\ ldIdx' = ldIdx + 1
    /\ UNCHANGED ldDeps
    /\ UNCHANGED nonLdVars

LoadReturn ==
    /\ ldPc = "loop"
    /\ ldIdx > Len(ldDeps)
    /\ ldPc' = "done"
    /\ UNCHANGED <<ldDeps, ldIdx, ldRepositories, ldLogins, ldErr, ldLog>>
    /\ UNCHANGED nonLdVars

LdInit ==
    /\ ldDeps \in DistinctSeqsUpTo(DependencyRepositories, MaxDependencies)
    /\ ldIdx = 1
    /\ ldRepositories = << >>
    /\ ldLogins = << >>
    /\ ldErr = NoLoadError
    /\ ldLog = << >>
    /\ ldPc = "loop"
    /\ NonLdIdle

LdNext ==
    \/ LoadDependencyCredentials
    \/ LoadReturn

LdSpec == LdInit /\ [][LdNext]_vars

----------------------------------------------------------------------------
(* Pipeline run: Execute *)

MaxSteps == 3

StepAliases == {"s1", "s2", "s3", "s4"}

\* what a step's Run returns: a Status and an error ("" is nil)
StepResults ==
    [status : {"Success", "Failure", "Error"}, err : {"", "step failed"}]

StopsOnErrorOnly(result) == result.err # ""

\* whether the pipeline stops after a step that returned result
StepStops(result) == result.status # "Success" \/ result.err # ""

RunStep ==
    /\ plPc = "run"
    /\ plIdx <= Len(plSteps)
    /\ \E result \in StepResults :
        /\ plRan' = Append(plRan, plSteps[plIdx])
        /\ plResults' = Append(plResults, [alias |-> plSteps[plIdx],
                                          status |-> result.status,
                                          err |-> result.err])
        /\ IF StepStops(result)
           THEN /\ plStatus' = IF result.status = "Success" THEN "Error"
                               ELSE result.status
                /\ plErr' = result.err
                /\ plPc' = "done"
                /\ plIdx' = plIdx
           ELSE /\ plStatus' = plStatus
                /\ plErr' = plErr
                /\ plPc' = plPc
                /\ plIdx' = plIdx + 1
    /\ UNCHANGED plSteps
    /\ UNCHANGED nonPlVars

PipelineReturn ==
    /\ plPc = "run"
    /\ plIdx > Len(plSteps)
    /\ plStatus' = "Success"
    /\ plPc' = "done"
    /\ UNCHANGED <<plSteps, plIdx, plResults, plRan, plErr>>
    /\ UNCHANGED nonPlVars

PlInit ==
    /\ plSteps \in DistinctSeqsUpTo(StepAliases, MaxSteps)
    /\ plIdx = 1
    /\ plResults = << >>
    /\ plRan = << >>
    /\ plStatus = ""
    /\ plErr = ""
    /\ plPc = "run"
    /\ NonPlIdle

PlNext ==
    \/ RunStep
    \/ PipelineReturn

PlSpec == PlInit /\ [][PlNext]_vars

----------------------------------------------------------------------------
(* helm-template directive: Run *)

HtDependencies == {"dep1", "dep2"}

\* chartRequested.Metadata.Dependencies: nil, or the names declared
NilDependencies == [IsNil |-> TRUE, Names |-> {}]

DeclaredDependencies ==
    {NilDependencies} \cup
    {[IsNil |-> FALSE, Names |-> names] : names \in SUBSET HtDependencies}

KubeVersions == {"", "1.30", "not-a-version"}

NO_FILE == "no file"

OLD_MANIFEST == "old manifest"

TRUNCATED == "truncated"

RENDERED == "rendered manifest"

HtSuccess == [Status |-> "Success", err |-> ""]

HtFailureWithoutError(msg) == [Status |-> "Failure", err |-> ""]

\* Result{Status: StatusFailure} with the error of a phase
HtFailure(msg) == [Status |-> "Failure", err |-> msg]

DependenciesNeverMissing(declared, vendored) == FALSE

\* checkDependencies, lines 150-157, with action.CheckDependencies
DependenciesMissing(declared, vendored) ==
    /\ ~declared.IsNil
    /\ ~(declared.Names \subseteq vendored)

\* newInstallAction, lines 129-135: chartutil.ParseKubeVersion fails
KubeVersionInvalid(kubeVersion) ==
    kubeVersion # "" /\ kubeVersion = "not-a-version"

\* newInstallAction, lines 118-123
InstallAction == [DryRun |-> TRUE, DryRunOption |-> "client", Replace |-> TRUE,
                  ClientOnly |-> TRUE]

HtPhase(phase, failed, msg, next) ==
    /\ htPc = phase
    /\ htTrace' = Append(htTrace, phase)
    /\ IF failed
       THEN /\ htResult' = HtFailure(msg)
            /\ htPc' = "done"
       ELSE /\ htResult' = htResult
            /\ htPc' = next

\* Run, lines 47-54
HtValidate ==
    /\ HtPhase("validate", ~htConfigValid, "invalid config", "bind")
    /\ UNCHANGED <<htConfigValid, htKubeVersion, htDeclared, htVendored, htFile,
                   htFile0, htInstall>>
    /\ UNCHANGED nonHtVars

\* Run, lines 56-62
HtBind ==
    /\ \E fails \in BOOLEAN :
        HtPhase("bind", fails, "could not convert config", "composeValues")
    /\ UNCHANGED <<htConfigValid, htKubeVersion, htDeclared, htVendored, htFile,
                   htFile0, htInstall>>
    /\ UNCHANGED nonHtVars

\* run, lines 70-73
HtComposeValues ==
    /\ \E fails \in BOOLEAN :
        HtPhase("composeValues", fails, "failed to compose values", "loadChart")
    /\ UNCHANGED <<htConfigValid, htKubeVersion, htDeclared, htVendored, htFile,
                   htFile0, htInstall>>
    /\ UNCHANGED nonHtVars

\* run, lines 75-78
HtLoadChart ==
    /\ \E fails \in BOOLEAN :
        HtPhase("loadChart", fails, "failed to load chart", "checkDependencies")
    /\ UNCHANGED <<htConfigValid, htKubeVersion, htDeclared, htVendored, htFile,
                   htFile0, htInstall>>
    /\ UNCHANGED nonHtVars

\* run, lines 80-82
HtCheckDependencies ==
    /\ HtPhase("checkDependencies", DependenciesMissing(htDeclared, htVendored),
               "missing chart dependencies", "newInstallAction")
    /\ UNCHANGED <<htConfigValid, htKubeVersion, htDeclared, htVendored, htFile,
                   htFile0, htInstall>>
    /\ UNCHANGED nonHtVars

\* run, lines 84-87
HtNewInstallAction ==
    /\ HtPhase("newInstallAction", KubeVersionInvalid(htKubeVersion),
               "failed to initialize Helm action config", "render")
    /\ htInstall' = IF KubeVersionInvalid(htKubeVersion) THEN << >>
                    ELSE <<InstallAction>>
    /\ UNCHANGED <<htConfigValid, htKubeVersion, htDeclared, htVendored, htFile,
                   htFile0>>
    /\ UNCHANGED nonHtVars

\* run, lines 89-92
HtRender ==
    /\ \E fails \in BOOLEAN :
        HtPhase("render", fails, "failed to render chart", "writeOutput")
    /\ UNCHANGED <<htConfigValid, htKubeVersion, htDeclared, htVendored, htFile,
                   htFile0, htInstall>>
    /\ UNCHANGED nonHtVars

\* run, lines 94-97, with writeOutput, lines 161-170: a write that fails
\* leaves the file as it was or, when os.WriteFile fails after opening it,
\* truncated
HtWriteOutput ==
    /\ htPc = "writeOutput"
    /\ htTrace' = Append(htTrace, "writeOutput")
    /\ \E outcome \in {"written", "not opened", "not written"} :
        /\ htFile' = CASE outcome = "written" -> RENDERED
                       [] outcome = "not opened" -> htFile
                       [] OTHER -> TRUNCATED
        /\ htResult' = IF outcome = "written" THEN HtSuccess
                       ELSE HtFailure("failed to write rendered chart")
    /\ htPc' = "done"
    /\ UNCHANGED <<htConfigValid, htKubeVersion, htDeclared, htVendored, htFile0,
                   htInstall>>
    /\ UNCHANGED nonHtVars

HtInit ==
    /\ htConfigValid \in BOOLEAN
    /\ htKubeVersion \in KubeVersions
    /\ htDeclared \in DeclaredDependencies
    /\ htVendored \in SUBSET HtDependencies
    /\ htFile0 \in {NO_FILE, OLD_MANIFEST}
    /\ htFile = htFile0
    /\ htInstall = << >>
    /\ htTrace = << >>
    /\ htResult = [Status |-> "", err |-> ""]
    /\ htPc = "validate"
    /\ NonHtIdle

HtNext ==
    \/ HtValidate
    \/ HtBind
    \/ HtComposeValues
    \/ HtLoadChart
    \/ HtCheckDependencies
    \/ HtNewInstallAction
    \/ HtRender
    \/ HtWriteOutput

HtSpec == HtInit /\ [][HtNext]_vars

----------------------------------------------------------------------------
(* Docker Hub webhook service: Handle *)

MaxTracks == 2

MaxSubscriptions == 2

IMAGE_REPOS == {"acme/app", "acme/db"}

IMAGE_TAGS == {"v1", "v2"}

NAMESPACE == "k8sta"

TrackNames == <<"t1", "t2", "t3", "t4">>

RepositorySubscription(repoURL) == [RepoURL |-> repoURL]

RepositorySubscriptionLists ==
    SeqsUpTo({RepositorySubscription(r) : r \in IMAGE_REPOS}, MaxSubscriptions)

\* The Tracks of the namespace, as List returns them: every Track has a name
\* of its own.
TrackLists ==
    UNION {[1..n -> RepositorySubscriptionLists] : n \in 0..MaxTracks}

TrackAt(subscriptions, i) ==
    [Name |-> TrackNames[i], RepositorySubscriptions |-> subscriptions[i]]

\* getTracksByImageRepo, lines 169-174: the inner loop over a Track's
\* subscriptions, left at the first one that matches
RECURSIVE Subscribed(_, _, _)
Subscribed(track, repo, j) ==
    IF j > Len(track.RepositorySubscriptions) THEN FALSE
    ELSE IF track.RepositorySubscriptions[j].RepoURL = repo THEN TRUE
    ELSE Subscribed(track, repo, j + 1)

RECURSIVE TracksFrom(_, _, _)
TracksFrom(tracks, repo, i) ==
    IF i > Len(tracks) THEN << >>
    ELSE IF Subscribed(tracks[i], repo, 1)
         THEN <<tracks[i]>> \o TracksFrom(tracks, repo, i + 1)
         ELSE TracksFrom(tracks, repo, i + 1)

getTracksOfNamespace(tracks, repo) == tracks

\* getTracksByImageRepo, lines 151-176, after a List that succeeded
getTracksByImageRepo(tracks, repo) == TracksFrom(tracks, repo, 1)

\* Handle, lines 112-125; the name is a fresh UUID
NewTicket(n, track, repo, tag) ==
    [Name |-> <<"uuid", n>>, Namespace |-> NAMESPACE, Track |-> track.Name,
     Change |-> [NewImage |-> <<[Repo |-> repo, Tag |-> tag]>>]]

\* Handle, lines 91-105, with the getTracksByImageRepo call it makes
Handle ==
    /\ whPc = "start"
    /\ IF whListFails
       THEN /\ whErr' = "error finding Tracks subscribed to image repo"
            /\ whSubscribed' = << >>
            /\ whPc' = "done"
            /\ whIdx' = 0
       ELSE /\ whErr' = ""
            /\ whSubscribed' = getTracksByImageRepo(whTracks, whRepo)
            /\ whPc' = "loop"
            /\ whIdx' = 1
    /\ UNCHANGED <<whTracks, whRepo, whTag, whListFails, whTickets>>
    /\ UNCHANGED nonWhVars

\* Handle, lines 106-143: one iteration
CreateTicket ==
    /\ whPc = "loop"
    /\ whIdx <= Len(whSubscribed)
    /\ \E createFails \in BOOLEAN :
        IF createFails
        THEN /\ whErr' = "error creating Ticket"
             /\ whPc' = "done"
             /\ UNCHANGED <<whTickets, whIdx>>
        ELSE /\ whTickets' = Append(whTickets,
                                    NewTicket(Len(whTickets) + 1,
                                              whSubscribed[whIdx], whRepo, whTag))
             /\ whIdx' = whIdx + 1
             /\ UNCHANGED <<whErr, whPc>>
    /\ UNCHANGED <<whTracks, whRepo, whTag, whListFails, whSubscribed>>
    /\ UNCHANGED nonWhVars

\* Handle, line 145
HandleReturn ==
    /\ whPc = "loop"
    /\ whIdx > Len(whSubscribed)
    /\ whPc' = "done"
    /\ UNCHANGED <<whTracks, whRepo, whTag, whListFails, whSubscribed, whIdx,
                   whTickets, whErr>>
    /\ UNCHANGED nonWhVars

WhInit ==
    /\ \E subscriptions \in TrackLists :
        whTracks = [i \in DOMAIN subscriptions |-> TrackAt(subscriptions, i)]
    /\ whRepo \in IMAGE_REPOS
    /\ whTag \in IMAGE_TAGS
    /\ whListFails \in BOOLEAN
    /\ whSubscribed = << >>
    /\ whIdx = 0
    /\ whTickets = << >>
    /\ whErr = ""
    /\ whPc = "start"
    /\ NonWhIdle

WhNext ==
    \/ Handle
    \/ CreateTicket
    \/ HandleReturn

WhSpec == WhInit /\ [][WhNext]_vars

----------------------------------------------------------------------------
(* Properties of GetDesiredRevisions *)

Returned == pc = "done"

ReturnedOK == pc = "done" /\ err = NoError

IsClassifiable(source) == IsHelmSource(source) \/ IsGitSource(source)

\* the indices of the Helm and Git sources of ss, in order
Classifiable(ss) ==
    SelectSeq([i \in 1..Len(ss) |-> i], LAMBDA i : IsClassifiable(ss[i]))

\* the overrides whose (RepoURL, Chart) pair equals the pair of the source
ExactMatches(source) ==
    {i \in 1..Len(update.SourceUpdates) :
        /\ update.SourceUpdates[i].RepoURL = source.RepoURL
        /\ update.SourceUpdates[i].Chart = source.Chart}

MinOf(S) == CHOOSE i \in S : \A j \in S : i <= j

\* C1 (as stated): when the call returns without error the revision list has
\* exactly one entry per input source, entry i belonging to source i.
C1_OnePerSource ==
    ReturnedOK =>
        /\ Len(revisions) = NumSources(app)
        /\ \A i \in 1..Len(revisions) : Len(log) >= i /\ log[i].idx = i

\* C1 (amended): when the call returns without error the revision list has
\* exactly one entry per classifiable (Helm or Git) source, in the order of
\* the sources: entry k is the revision resolved for the k-th classifiable
\* source, "" when undetermined; unclassifiable sources have no entry.
C1_OnePerClassifiableSource ==
    ReturnedOK =>
        LET cls == Classifiable(sources)
        IN /\ Len(revisions) = Len(cls)
           /\ Len(log) = Len(cls)
           /\ \A k \in 1..Len(cls) :
                /\ log[k].idx = cls[k]
                /\ log[k].pos = k
                /\ revisions[k] = log[k].revision

C1_Witness ==
    /\ ReturnedOK
    /\ Len(sources) = 2
    /\ ~IsClassifiable(sources[1])
    /\ IsGitSource(sources[2])
    /\ Len(revisions) = 1
    /\ revisions[1] # ""

\* C2: a Helm source (https://x, chart c, no override) followed by a Git
\* source (https://y, override to Warehouse/w2), resolved against freight with
\* chart c@1.2.3 under the default origin and commit abc123 under
\* Warehouse/w2, yields <<"1.2.3", "abc123">>: each Helm source is looked up
\* by its own repo URL and chart name.
C2_ScenarioRevisions ==
    ( /\ ~app.IsNil
      /\ ~app.SourcesNil
      /\ app.Sources = <<HELM_X_C, GIT_Y>>
      /\ update = [Origin |-> W1, SourceUpdates |-> <<SU_GIT_Y_W2>>]
      /\ frght = <<FREIGHT_W1, FREIGHT_W2>>
      /\ lookupFault = 0
      /\ pc \in {"done", "panic"} )
    => /\ pc = "done"
       /\ err = NoError
       /\ revisions = <<"1.2.3", "abc123">>

\* C3: whenever a chart or commit lookup fails, the call returns the error
\* and a revision list that carries none of the revisions resolved earlier.
C3_NoPartialList ==
    (Returned /\ err # NoError) => revisions = << >>

\* C4 (as stated): when two or more overrides match the same source, the
\* call fails with an error.
C4_AmbiguousFailsFast ==
    ( /\ Returned
      /\ \E k \in 1..Len(log) :
            Cardinality(ExactMatches(sources[log[k].idx])) >= 2 )
    => err # NoError

\* C4 (amended): when two or more overrides match the same source (same repo
\* URL and, for a Helm source, same chart name), the resolver does not fail
\* because of it: it uses the first matching override in declared order, and
\* the source is resolved with that override's origin.
C4_FirstMatchWins ==
    \A k \in 1..Len(log) :
        LET m == MatchingSourceUpdates(sources[log[k].idx])
        IN Cardinality(m) >= 2 =>
            /\ log[k].matched = MinOf(m)
            /\ log[k].origin = update.SourceUpdates[MinOf(m)].Origin
            /\ (log[k].result = "error" => lookupFault = log[k].idx)

C4_Witness ==
    /\ ReturnedOK
    /\ \E k \in 1..Len(log) :
        LET m == ExactMatches(sources[log[k].idx])
        IN /\ Cardinality(m) >= 2
           /\ \E i \in m : update.SourceUpdates[i].Origin # log[k].origin
           /\ log[k].result = "found"

\* C5: an override applies to a source if and only if its (RepoURL, Chart)
\* pair equals the pair of the source; a Git source is never matched by an
\* override that names a chart.
C5_ExactPairMatch ==
    \A k \in 1..Len(log) :
        LET source == sources[log[k].idx]
        IN /\ log[k].matched # 0 => log[k].matched \in ExactMatches(source)
           /\ log[k].matched = 0 => ExactMatches(source) = {}

C7_LookupKeyOfSource ==
    \A k \in 1..Len(log) :
        LET source == sources[log[k].idx]
        IN log[k].kind = "helm" =>
            IF ~Contains(source.RepoURL, SCHEME_SEP)
            THEN /\ log[k].repoURL =
                        OCI_PREFIX \o TrimSuffix(source.RepoURL, SLASH)
                                   \o SLASH \o source.Chart
                 /\ log[k].chart = EMPTY
            ELSE /\ log[k].repoURL = source.RepoURL
                 /\ log[k].chart = source.Chart

\* C9: for a Git source whose commit is found, the revision is the commit's
\* HealthCheckCommit when that is non-empty and the commit ID otherwise.
C9_HealthCheckCommitPreferred ==
    \A k \in 1..Len(log) :
        (log[k].kind = "git" /\ log[k].result = "found") =>
            LET found == FindCommit(log[k].origin, frght, log[k].repoURL)
            IN /\ found # << >>
               /\ log[k].pos \in 1..Len(revisions)
               /\ revisions[log[k].pos] =
                    (IF found[1].HealthCheckCommit # ""
                     THEN found[1].HealthCheckCommit
                     ELSE found[1].ID)

C9_Witness ==
    /\ ReturnedOK
    /\ \E k \in 1..Len(log) :
        /\ log[k].kind = "git"
        /\ log[k].result = "found"
        /\ FindCommit(log[k].origin, frght, log[k].repoURL)[1].HealthCheckCommit = "def456"
        /\ FindCommit(log[k].origin, frght, log[k].repoURL)[1].ID = "fed987"
        /\ revisions[log[k].pos] = "def456"

\* C10: when the chart or commit finder reports no match for a source, the
\* resolver records "" at that source's position, raises no error for it and
\* goes on with the remaining sources.
C10_NoMatchYieldsEmpty ==
    \A k \in 1..Len(log) :
        log[k].result = "nil" =>
            /\ log[k].pos = k
            /\ k <= Len(revisions)
            /\ revisions[k] = ""
            /\ (err # NoError => lookupFault # log[k].idx)
            /\ idx > log[k].idx
            /\ (ReturnedOK => Len(log) = Len(Classifiable(sources)))

C10_Witness ==
    /\ ReturnedOK
    /\ Len(log) = 2
    /\ log[1].result = "nil"
    /\ log[2].result = "found"
    /\ revisions[1] = ""
    /\ revisions[2] # ""

\* C11: a source is handled as Helm when its chart name is non-empty (even
\* with a repo URL), as Git when only its repo URL is non-empty, and is
\* otherwise skipped without error; a call that returns without error returns
\* as many revisions as there are Helm and Git sources.
C11_Classification ==
    /\ \A k \in 1..Len(log) :
            LET source == sources[log[k].idx]
            IN /\ log[k].kind = "helm" <=> source.Chart # EMPTY
               /\ log[k].kind = "git" <=>
                    (source.Chart = EMPTY /\ source.RepoURL # EMPTY)
    /\ \A i \in 1..Len(sources) :
            i < idx =>
                ( (sources[i].Chart = EMPTY /\ sources[i].RepoURL = EMPTY)
                  <=> ~\E k \in 1..Len(log) : log[k].idx = i )
    /\ err # NoError => (log # << >> /\ log[Len(log)].result = "error")
    /\ ReturnedOK =>
            Len(revisions) =
                Cardinality({i \in 1..Len(sources) :
                    sources[i].Chart # EMPTY \/ sources[i].RepoURL # EMPTY})

C11_Witness ==
    /\ ReturnedOK
    /\ Len(sources) = 2
    /\ sources[1].Chart # EMPTY
    /\ sources[1].RepoURL # EMPTY
    /\ sources[2] = UNCLASSIFIABLE
    /\ Len(log) = 1
    /\ log[1].kind = "helm"
    /\ Len(revisions) = 1

\* C12: when the application is nil, or has neither a single source nor a
\* source list, the call returns an empty non-nil revision list and no error,
\* and no finder is called.
C12_NoApplicationNoRevisions ==
    (pc # "start" /\ (app.IsNil \/ (app.Source = << >> /\ app.SourcesNil))) =>
        /\ pc = "done"
        /\ revisions = << >>
        /\ ~revisionsNil
        /\ err = NoError
        /\ log = << >>

C12_Witness ==
    /\ pc = "done"
    /\ ~app.IsNil
    /\ app.Source = << >>
    /\ app.SourcesNil
    /\ revisions = << >>
    /\ ~revisionsNil

\* C26: for an application that declares its sources only through the
\* multi-source list (the single source unset), the call never faults: it
\* returns a revision list and an error value.
C26_SourcesOnlyNeverFaults ==
    (~app.IsNil /\ app.Source = << >> /\ ~app.SourcesNil) => pc # "panic"

----------------------------------------------------------------------------
(* Properties of the Bookkeeper promotion mechanism *)

\* the state left by the updates of entries 1..n that completed, applied to
\* state in order
RECURSIVE ExpectedAfter(_, _, _)
ExpectedAfter(state, entries, n) ==
    IF n = 0 THEN state
    ELSE LET e == entries[n]
             prev == ExpectedAfter(state, entries, n - 1)
             recorded == {i \in 1..Len(prev.Commits) :
                             prev.Commits[i].RepoURL = e.update.RepoURL}
         IN IF /\ e.err = ""
               /\ e.resp.action \in {"PushedDirectly", "None"}
               /\ recorded # {}
            THEN [prev EXCEPT !.Commits[MinOf(recorded)].HealthCheckCommit =
                                  e.resp.commitID]
            ELSE prev

\* C13: Promote attempts the Bookkeeper-targeted updates in declared order,
\* only the last attempted update can have failed, its error is the one
\* Promote returns, and the state returned with an error holds the
\* HealthCheckCommit changes of every update that completed before it.
C13_StopsAtFirstFailure ==
    LET declared == SelectSeq(bkUpdates, LAMBDA u : u.Bookkeeper)
    IN /\ Len(bkLog) <= Len(declared)
       /\ \A k \in 1..Len(bkLog) :
            /\ bkLog[k].update = declared[k]
            /\ bkLog[k].err # "" =>
                 /\ k = Len(bkLog)
                 /\ bkPc = "done"
                 /\ bkErr = bkLog[k].err
       /\ (bkPc = "done" /\ bkErr # "") =>
            /\ bkLog # << >>
            /\ bkLog[Len(bkLog)].err = bkErr
            /\ bkState = ExpectedAfter(bkInput, bkLog, Len(bkLog) - 1)
       /\ (bkPc = "done" /\ bkErr = "") => Len(bkLog) = Len(declared)

C13_Witness ==
    /\ bkPc = "done"
    /\ bkErr # ""
    /\ Len(bkLog) = 2
    /\ bkLog[1].err = ""
    /\ bkState # bkInput

\* the commits of state recorded for the repository of update upd
RecordedFor(state, upd) ==
    {i \in 1..Len(state.Commits) : state.Commits[i].RepoURL = upd.RepoURL}

\* the update of entry e completed with a direct push or with no changes,
\* for a repository that has a commit recorded
RecordsCommit(e) ==
    /\ e.err = ""
    /\ e.resp.action \in {"PushedDirectly", "None"}
    /\ RecordedFor(e.before, e.update) # {}

\* C14: after an update for which the render collaborator reported a direct
\* push or no changes and for whose repository a commit is recorded, the
\* HealthCheckCommit of that commit is the commit ID the collaborator
\* returned; a repeated promotion, answered as the first one was, returns the
\* state it was given.
C14_RecordsCommitIDAndRepeats ==
    /\ \A k \in 1..Len(bkLog) :
         RecordsCommit(bkLog[k]) =>
            LET e == bkLog[k]
                i == MinOf(RecordedFor(e.before, e.update))
            IN /\ e.after.Commits[i].HealthCheckCommit = e.resp.commitID
               /\ k = Len(bkLog) =>
                    bkState.Commits[i].HealthCheckCommit = e.resp.commitID
    /\ (bkRepeated /\ bkPc = "done") =>
         /\ bkErr = ""
         /\ bkState = bkInput
         /\ Len(bkLog) = Len(bkFirst)
         /\ \A k \in 1..Len(bkLog) : bkLog[k].resp = bkFirst[k].resp

C14_Witness ==
    /\ bkRepeated
    /\ bkPc = "done"
    /\ \E k \in 1..Len(bkFirst) :
         /\ RecordsCommit(bkFirst[k])
         /\ bkFirst[k].resp.action = "None"
         /\ bkFirst[k].before # bkFirst[k].after
    /\ \E k \in 1..Len(bkLog) :
         /\ RecordsCommit(bkLog[k])
         /\ bkLog[k].resp.action = "PushedDirectly"

\* C15 as stated: an update for which the render collaborator reported
\* another action than a direct push or no changes returns an error, which
\* tells it apart from a completed update.
C15_OtherActionSurfaced ==
    \A k \in 1..Len(bkLog) :
        bkLog[k].resp.action = "OpenedPR" => bkLog[k].err # ""

\* C15: an update for which the render collaborator reported another action
\* than a direct push or no changes returns the state it was given and no
\* error, and Promote goes on as after a completed update.
C15_OtherActionLeftUnhandled ==
    \A k \in 1..Len(bkLog) :
        bkLog[k].resp.action = "OpenedPR" =>
            /\ bkLog[k].err = ""
            /\ bkLog[k].after = bkLog[k].before
            /\ k = Len(bkLog) => (bkErr = "" /\ bkState = bkLog[k].before)

C15_Witness ==
    /\ bkPc = "done"
    /\ bkErr = ""
    /\ Len(bkLog) = 2
    /\ bkLog[1].resp.action = "OpenedPR"
    /\ bkLog[1].commitIndex > -1
    /\ bkLog[1].before.Commits[bkLog[1].commitIndex + 1].HealthCheckCommit # ""
    /\ bkLog[2].resp.action = "PushedDirectly"

\* C27: Promote changes nothing but the HealthCheckCommit of the commits
\* selected by an update's read-ref index: the caller's state value is never
\* changed, every other field of the returned state equals the input, and
\* with no Bookkeeper update the returned state is the input, without error
\* and without any collaborator call.
C27_OnlyHealthCheckCommitChanges ==
    /\ bkCaller = bkInput
    /\ bkPc \in {"loop", "done"} =>
        /\ Len(bkState.Commits) = Len(bkInput.Commits)
        /\ [bkState EXCEPT !.Commits = bkInput.Commits] = bkInput
        /\ \A i \in 1..Len(bkInput.Commits) :
            /\ [bkState.Commits[i] EXCEPT !.HealthCheckCommit =
                    bkInput.Commits[i].HealthCheckCommit] = bkInput.Commits[i]
            /\ bkState.Commits[i] # bkInput.Commits[i] =>
                    \E k \in 1..Len(bkLog) : bkLog[k].commitIndex = i - 1
    /\ (bkPc = "done" /\ BookkeeperUpdates(bkUpdates) = << >>) =>
        /\ bkState = bkInput
        /\ bkErr = ""
        /\ bkLog = << >>

C27_Witness ==
    /\ bkPc = "done"
    /\ ~bkRepeated
    /\ Len(bkInput.Commits) = 2
    /\ bkState.Commits[1] = bkInput.Commits[1]
    /\ bkState.Commits[2].HealthCheckCommit # bkInput.Commits[2].HealthCheckCommit
    /\ bkCaller = bkInput

DoSingleUpdateCalls == <<"getReadRef", "getCredentials", "renderManifests">>

CallsOf(entry, name) ==
    Cardinality({j \in 1..Len(entry.calls) : entry.calls[j] = name})

\* C28: within one repository update the read ref is resolved, then the
\* credentials are looked up, then the manifests are rendered, each at most
\* once; the render is never requested after the read ref or the credentials
\* lookup failed, and it is requested, with empty credentials, when the
\* lookup succeeds without finding any.
C28_CallOrder ==
    /\ Len(bkLog) <= Len(bkTodo)
    /\ \A k \in 1..Len(bkLog) :
        LET entry == bkLog[k]
        IN /\ entry.update = bkTodo[k]
           /\ Len(entry.calls) <= Len(DoSingleUpdateCalls)
           /\ entry.calls = SubSeq(DoSingleUpdateCalls, 1, Len(entry.calls))
           /\ \A name \in {"getReadRef", "getCredentials", "renderManifests"} :
                CallsOf(entry, name) <= 1
           /\ (entry.resp.readRef = "error" \/ entry.resp.creds = "error") =>
                /\ CallsOf(entry, "renderManifests") = 0
                /\ entry.req = << >>
                /\ entry.err # ""
           /\ entry.resp.readRef = "error" => CallsOf(entry, "getCredentials") = 0
           /\ (entry.resp.readRef = "ok" /\ entry.resp.creds = "notfound") =>
                /\ CallsOf(entry, "renderManifests") = 1
                /\ entry.req # << >>
                /\ entry.req[1].RepoCreds = ""
                /\ entry.req[1].RepoURL = entry.update.RepoURL

C28_Witness ==
    /\ Len(bkLog) = 2
    /\ bkLog[1].resp.creds = "notfound"
    /\ bkLog[1].req # << >>
    /\ bkLog[1].req[1].RepoCreds = ""
    /\ bkLog[1].err = ""
    /\ bkLog[2].resp.creds = "error"
    /\ bkLog[2].calls = <<"getReadRef", "getCredentials">>

----------------------------------------------------------------------------
(* Properties of the configuration schemas *)

Validated(kind) == schKind = kind /\ schVerdict # "pending"

IsNonEmptyString(v) == v.t = "string" /\ v.v # EMPTY

\* a git-push configuration with a usable path and nothing the schema does
\* not know
WellFormedGitPush(cfg) ==
    /\ IsNonEmptyString(cfg.path)
    /\ cfg.unknown.t = "absent"

GenerateInEffect(cfg) ==
    /\ cfg.generateTargetBranch = Bool(TRUE)
    /\ \/ cfg.targetBranch.t \in {"absent", "null"}
       \/ cfg.targetBranch = Str(EMPTY)

TargetInEffect(cfg) ==
    /\ IsNonEmptyString(cfg.targetBranch)
    /\ \/ cfg.generateTargetBranch.t \in {"absent", "null"}
       \/ cfg.generateTargetBranch = Bool(FALSE)

\* C16: a git-push configuration (with a path and no unknown property) is
\* accepted if and only if exactly one target option is in effect:
\* generateTargetBranch=true with targetBranch absent, null or empty, or a
\* non-empty targetBranch with generateTargetBranch absent, null or false.
C16_ExactlyOneTargetOption ==
    (Validated("git-push") /\ WellFormedGitPush(schConfig)) =>
        ( schVerdict = "valid" <=>
            (GenerateInEffect(schConfig) # TargetInEffect(schConfig)) )

\* C17: a git-push configuration that has only the path is valid.
C17_NeitherOptionIsValid ==
    ( /\ Validated("git-push")
      /\ WellFormedGitPush(schConfig)
      /\ schConfig.generateTargetBranch.t = "absent"
      /\ schConfig.targetBranch.t = "absent" ) => schVerdict = "valid"

\* C18: a git-wait-for-pr configuration is accepted only if it has a
\* non-empty repoURL, no unknown property, and either a prNumber with no
\* prNumberFromOpen, or a non-empty prNumberFromOpen with prNumber absent or 0.
C18_ExactlyOneWayToNamePR ==
    (Validated("git-wait-for-pr") /\ schVerdict = "valid") =>
        /\ IsNonEmptyString(schConfig.repoURL)
        /\ schConfig.unknown.t = "absent"
        /\ \/ /\ schConfig.prNumber.t = "number"
              /\ schConfig.prNumberFromOpen.t = "absent"
           \/ /\ IsNonEmptyString(schConfig.prNumberFromOpen)
              /\ \/ schConfig.prNumber.t = "absent"
                 \/ schConfig.prNumber = Num(0)
        /\ ~( /\ schConfig.prNumber.t = "number"
              /\ schConfig.prNumber.v # 0
              /\ schConfig.prNumberFromOpen.t # "absent" )

C18_Witness ==
    /\ Validated("git-wait-for-pr")
    /\ schVerdict = "valid"
    /\ schConfig.prNumber = Num(0)
    /\ IsNonEmptyString(schConfig.prNumberFromOpen)

----------------------------------------------------------------------------
(* Properties of compareChartVersions *)

\* C19: the change-set names exactly the charts whose version differs between
\* before and after: "old -> new" for a chart in both, the new version for a
\* chart only in after, "" for a chart only in before; comparing a map with
\* itself gives the empty change-set.
C19_ChangesAreTheDifferences ==
    cvPc # "start" =>
        /\ \A n \in CvChartNames :
            LET inBefore == n \in DOMAIN cvBefore
                inAfter == n \in DOMAIN cvAfter
            IN /\ (inBefore /\ inAfter /\ cvBefore[n] = cvAfter[n]) =>
                        n \notin DOMAIN cvChanges
               /\ (inBefore /\ inAfter /\ cvBefore[n] # cvAfter[n]) =>
                        /\ n \in DOMAIN cvChanges
                        /\ cvChanges[n] = <<cvBefore[n]>> \o <<" -> ">> \o <<cvAfter[n]>>
               /\ (~inBefore /\ inAfter) =>
                        (n \in DOMAIN cvChanges /\ cvChanges[n] = <<cvAfter[n]>>)
               /\ (inBefore /\ ~inAfter) =>
                        (n \in DOMAIN cvChanges /\ cvChanges[n] = << >>)
               /\ (~inBefore /\ ~inAfter) => n \notin DOMAIN cvChanges
        /\ DOMAIN cvChanges \subseteq CvChartNames
        /\ cvBefore = cvAfter => DOMAIN cvChanges = {}

C19_Witness ==
    /\ cvPc = "compared"
    /\ \E b, a, r \in DOMAIN cvChanges :
         /\ b \in DOMAIN cvBefore /\ b \in DOMAIN cvAfter /\ Len(cvChanges[b]) = 3
         /\ a \notin DOMAIN cvBefore /\ Len(cvChanges[a]) = 1
         /\ r \notin DOMAIN cvAfter /\ cvChanges[r] = << >>

RECURSIVE LinesOf(_, _)
LinesOf(text, line) ==
    IF text = << >> THEN <<line>>
    ELSE IF Head(text) = NEWLINE THEN <<line>> \o LinesOf(Tail(text), << >>)
    ELSE LinesOf(Tail(text), Append(line, Head(text)))

NewlinesIn(text) == Cardinality({i \in 1..Len(text) : text[i] = NEWLINE})

\* C21: the commit message is empty for an empty change-set; otherwise it is
\* the line "Updated chart dependencies for <path>", an empty line and one
\* line per change, "- <name>: <change>" or "- <name>: removed", with no
\* newline at the end, hence one newline more than there are changes.
C21_CommitMessageLines ==
    cvPc = "committed" =>
        LET names == DOMAIN cvChanges
            lines == LinesOf(cvMessage, << >>)
            expected(n) == IF cvChanges[n] = << >>
                           THEN <<"- ", n, ": ", "removed">>
                           ELSE <<"- ", n, ": ">> \o cvChanges[n]
        IN IF names = {} THEN cvMessage = << >>
           ELSE /\ NewlinesIn(cvMessage) = Cardinality(names) + 1
                /\ cvMessage[Len(cvMessage)] # NEWLINE
                /\ Len(lines) = Cardinality(names) + 2
                /\ lines[1] = <<"Updated chart dependencies for ", "charts/mychart">>
                /\ lines[2] = << >>
                /\ \A n \in names :
                        Cardinality({i \in 3..Len(lines) : lines[i] = expected(n)}) = 1

C21_Witness ==
    /\ cvPc = "committed"
    /\ NewlinesIn(cvMessage) = 4
    /\ \E b, a, r \in DOMAIN cvChanges :
         /\ Len(cvChanges[b]) = 3
         /\ Len(cvChanges[a]) = 1
         /\ cvChanges[r] = << >>

----------------------------------------------------------------------------
(* Properties of processChartUpdates *)

\* the versions freight allowed by the origin of configured chart c holds
\* for it
FreightVersionsFor(c) ==
    LET ref == normalizeChartReference(c.Repository, c.Name)
        allowed == {i \in 1..Len(puFreight) :
                        c.FromOrigin = NilOrigin \/ puFreight[i].Origin = c.FromOrigin}
    IN UNION {{puFreight[i].Charts[j].Version :
                    j \in {j \in 1..Len(puFreight[i].Charts) :
                            /\ puFreight[i].Charts[j].RepoURL = ref.RepoURL
                            /\ puFreight[i].Charts[j].Name = ref.Chart}} :
              i \in allowed}

\* the positions, as Go counts, at which configured chart c is declared
DeclaredAt(c) ==
    {i - 1 : i \in {i \in 1..Len(puDeps) :
                        /\ puDeps[i].Repository = c.Repository
                        /\ puDeps[i].Name = c.Name}}

\* C22: the changes returned have one entry for each configured chart that is
\* declared as a dependency and found in the freight its origin allows,
\* keyed "dependencies.<i>.version" by the position of the dependency, with
\* the version of the freight chart; a configured chart that is not found is
\* no error and the charts after it are still handled.
C22_OneChangePerFoundDependency ==
    /\ (puPc = "done" /\ puErr = "") =>
         /\ \A k \in 1..Len(puCharts) :
                \A i \in DeclaredAt(puCharts[k]) :
                    IF FreightVersionsFor(puCharts[k]) # {}
                    THEN /\ <<"dependencies.", i, ".version">> \in DOMAIN puChanges
                         /\ puChanges[<<"dependencies.", i, ".version">>]
                                \in FreightVersionsFor(puCharts[k])
                    ELSE <<"dependencies.", i, ".version">> \notin DOMAIN puChanges
         /\ \A key \in DOMAIN puChanges :
                \E k \in 1..Len(puCharts) :
                    /\ key[2] \in DeclaredAt(puCharts[k])
                    /\ FreightVersionsFor(puCharts[k]) # {}
         /\ Len(puLog) = Len(puCharts)
    /\ \A k \in 1..Len(puLog) :
         puLog[k].outcome = "notfound" =>
            /\ FreightVersionsFor(puLog[k].chart) = {}
            /\ k = Len(puLog) => (puErr = "" /\ puIdx = k + 1)

C22_Witness ==
    /\ puPc = "done"
    /\ puErr = ""
    /\ Len(puLog) = 2
    /\ puLog[1].outcome = "notfound"
    /\ puLog[2].outcome = "changed"
    /\ puLog[2].chart.FromOrigin # NilOrigin
    /\ puLog[2].index = 1
    /\ DOMAIN puChanges = {<<"dependencies.", 1, ".version">>}

----------------------------------------------------------------------------
(* Properties of loadDependencyCredentials *)

\* the repository entries the lookups of entries 1..n of the log call for
RECURSIVE ExpectedRepositories(_, _)
ExpectedRepositories(entries, n) ==
    IF n = 0 THEN << >>
    ELSE LET e == entries[n]
             before == ExpectedRepositories(entries, n - 1)
         IN IF /\ e.answer.err = ""
               /\ e.answer.ok
               /\ SubSeq(e.repository, 1, 5) = <<"h", "t", "t", "p", "s">>
            THEN before \o <<[URL |-> e.repository,
                              Username |-> e.answer.creds.Username,
                              Password |-> e.answer.creds.Password]>>
            ELSE before

\* C23: credentials are looked up for the dependencies in order; a lookup
\* error ends the call with an error that says "failed to obtain
\* credentials" and wraps the cause; credentials not found for an HTTP(S)
\* repository are no error and add nothing; credentials found for an HTTP(S)
\* repository add one entry with the dependency's URL, the username and the
\* password, in the order of the dependencies.
C23_CredentialsPerDependency ==
    /\ Len(ldLog) <= Len(ldDeps)
    /\ \A k \in 1..Len(ldLog) :
        /\ ldLog[k].repository = ldDeps[k]
        /\ ldLog[k].answer.err # "" =>
            /\ k = Len(ldLog)
            /\ ldPc = "done"
            /\ ldErr.msg = "failed to obtain credentials"
            /\ ldErr.cause = ldLog[k].answer.err
        /\ ( /\ ldLog[k].answer.err = ""
             /\ ~ldLog[k].answer.ok
             /\ SubSeq(ldLog[k].repository, 1, 5) = <<"h", "t", "t", "p", "s">> ) =>
                /\ ldLog[k].err = NoLoadError
                /\ k = Len(ldLog) => (ldErr = NoLoadError /\ ldIdx = k + 1)
    /\ ldRepositories = ExpectedRepositories(ldLog, Len(ldLog))
    /\ (ldPc = "done" /\ ldErr = NoLoadError) => Len(ldLog) = Len(ldDeps)

C23_Witness ==
    /\ ldPc = "done"
    /\ ldErr = NoLoadError
    /\ Len(ldRepositories) = 2
    /\ ldRepositories[1].Username # ldRepositories[2].Username

----------------------------------------------------------------------------
(* Properties of the pipeline run *)

\* C24: the steps run in declared order; a step that returned Status
\* Failure, Status Error or an error is the last step that ran; the per-step
\* results are those of the steps that ran, a prefix of the declared steps.
C24_FailFast ==
    /\ Len(plRan) <= Len(plSteps)
    /\ plRan = SubSeq(plSteps, 1, Len(plRan))
    /\ Len(plResults) = Len(plRan)
    /\ \A k \in 1..Len(plResults) :
        /\ plResults[k].alias = plRan[k]
        /\ (plResults[k].status \in {"Failure", "Error"} \/ plResults[k].err # "") =>
            /\ k = Len(plResults)
            /\ plPc = "done"
    /\ (plPc = "done" /\ Len(plRan) < Len(plSteps)) =>
        LET last == plResults[Len(plResults)]
        IN last.status \in {"Failure", "Error"} \/ last.err # ""

C24_Witness ==
    /\ plPc = "done"
    /\ Len(plSteps) = 3
    /\ Len(plResults) = 2
    /\ plResults[1].status = "Success"
    /\ plResults[2].status = "Failure"
    /\ plResults[2].err = ""

----------------------------------------------------------------------------
(* Properties of the helm-template directive *)

HtPhaseOrder ==
    <<"validate", "bind", "composeValues", "loadChart", "checkDependencies",
      "newInstallAction", "render", "writeOutput">>

\* C25: the phases are performed in the fixed order, the render is made by a
\* dry-run, client-only action, and the output file is touched only by the
\* write phase, which is reached only after every earlier phase succeeded;
\* with an invalid configuration or a declared dependency that is not
\* vendored it is never reached.
C25_WriteOnlyAfterAllPhases ==
    /\ Len(htTrace) <= Len(HtPhaseOrder)
    /\ htTrace = SubSeq(HtPhaseOrder, 1, Len(htTrace))
    /\ htFile # htFile0 => (htTrace # << >> /\ htTrace[Len(htTrace)] = "writeOutput")
    /\ (htTrace # << >> /\ htTrace[Len(htTrace)] = "writeOutput") =>
        /\ htConfigValid
        /\ htDeclared.IsNil \/ htDeclared.Names \subseteq htVendored
        /\ htInstall # << >> /\ htInstall[1].DryRun /\ htInstall[1].ClientOnly
    /\ (htPc = "done" /\ (~htConfigValid \/ (~htDeclared.IsNil /\
                                             htDeclared.Names \ htVendored # {}))) =>
        /\ htFile = htFile0
        /\ htResult.Status = "Failure"
        /\ htResult.err # ""

C25_Witness ==
    /\ htPc = "done"
    /\ htConfigValid
    /\ htDeclared.Names \ htVendored # {}
    /\ htFile0 = OLD_MANIFEST
    /\ htFile = OLD_MANIFEST
    /\ htTrace[Len(htTrace)] = "checkDependencies"

\* C29: Run returns Status Success exactly when it returns no error; a phase
\* that fails returns Status Failure and an error.
C29_SuccessIffNoError ==
    htPc = "done" =>
        /\ htResult.Status \in {"Success", "Failure"}
        /\ htResult.Status = "Success" <=> htResult.err = ""
        /\ Len(htTrace) < Len(HtPhaseOrder) =>
                (htResult.Status = "Failure" /\ htResult.err # "")
        /\ htResult.Status = "Success" => htFile = RENDERED

C29_Witness ==
    /\ htPc = "done"
    /\ htResult.Status = "Failure"
    /\ htResult.err = "failed to initialize Helm action config"

----------------------------------------------------------------------------
(* Properties of the Docker Hub webhook service *)

TicketsOf(name) ==
    Cardinality({k \in 1..Len(whTickets) : whTickets[k].Track = name})

HasSubscription(track, repo) ==
    \E j \in 1..Len(track.RepositorySubscriptions) :
        track.RepositorySubscriptions[j].RepoURL = repo

\* C30: when Handle returns without error, every Track of the namespace with
\* at least one subscription to the pushed repository has exactly one Ticket
\* and every other Track has none, and each Ticket names its Track and carries
\* the pushed repository and tag; when listing the Tracks fails, no Ticket is
\* created and the error is returned.
C30_OneTicketPerSubscribedTrack ==
    /\ (whPc = "done" /\ whErr = "") =>
        /\ ~whListFails
        /\ \A i \in 1..Len(whTracks) :
            TicketsOf(whTracks[i].Name) =
                IF HasSubscription(whTracks[i], whRepo) THEN 1 ELSE 0
        /\ \A k \in 1..Len(whTickets) :
            /\ \E i \in 1..Len(whTracks) : whTickets[k].Track = whTracks[i].Name
            /\ whTickets[k].Change.NewImage = <<[Repo |-> whRepo, Tag |-> whTag]>>
            /\ whTickets[k].Namespace = NAMESPACE
            /\ \A l \in 1..Len(whTickets) :
                whTickets[l].Name = whTickets[k].Name => l = k
    /\ (whPc = "done" /\ whListFails) =>
        /\ whTickets = << >>
        /\ whErr # ""

C30_Witness ==
    /\ whPc = "done"
    /\ whErr = ""
    /\ Len(whTracks) = 2
    /\ Len(whTracks[1].RepositorySubscriptions) = 2
    /\ \A j \in 1..2 : whTracks[1].RepositorySubscriptions[j].RepoURL = whRepo
    /\ ~HasSubscription(whTracks[2], whRepo)
    /\ Len(whTickets) = 1
    /\ whTickets[1].Track = "t1"

----------------------------------------------------------------------------
(* Properties of normalizeChartReference *)

\* the pair that normalizing nHist[k] produced
NormOut(k) ==
    IF k < Len(nHist) THEN nHist[k + 1] ELSE [RepoURL |-> nRepo, Chart |-> nChart]

\* what a normalization has to produce from the pair p
NormFolded(p) ==
    IF HasPrefix(p.RepoURL, OCI_PREFIX)
    THEN [RepoURL |-> TrimSuffix(p.RepoURL, SLASH) \o SLASH \o p.Chart,
          Chart   |-> EMPTY]
    ELSE p

====
